---------------------------- MODULE Spec2Model ----------------------------
(***************************************************************************)
(* A model of the MMTP server (MMTPServer), of the protocol engine it uses *)
(* (MMTPProtocol), of the connections it serves and of the client          *)
(* (MMTPClient) at the other end of one of them.                           *)
(*                                                                         *)
(* Conventions.  Addresses are kept as sequences of one-character strings  *)
(* so that the address regular expression is evaluated on them; every      *)
(* other string is a TLA+ string.  SHA-256 digests are kept as the first   *)
(* eight hexadecimal characters of the real digest.  A JavaScript object   *)
(* whose identity matters (a packet) lives in `heap` and is referred to by *)
(* its index; an object with optional fields is a function whose domain    *)
(* holds the fields that are present.                                      *)
(***************************************************************************)
EXTENDS Integers, Sequences, FiniteSets, TLC

VARIABLES
  usePGP,           \* MMTPServer.usePGP (and protocol.usePGP), a constructor option
  mailboxes,        \* MMTPServer.mailboxes: address -> array of packets (heap indices)
  heap,             \* the packet objects created by JSON.parse, by index
  clients,          \* MMTPServer.clients: the registered sockets
  connectionLimits, \* MMTPServer.connectionLimits: remote address -> counter
  sock,             \* per socket: the state of the TCP connection
  lastFrame,        \* per socket: the frame most recently written to its connection
  sent,             \* per socket: the number of frames written to it since accept
  tasks,            \* the handler invocations suspended at an await, by request number
  nreq,             \* the number of data events dispatched so far
  pubFiles,         \* key store: address -> contents of <address>.pub.asc
  privFiles,        \* key store: address -> contents of <address>.priv.asc
  publicKeys,       \* MMTPProtocol.publicKeys: the in-memory cache of parsed keys
  delivered,        \* history: packet index -> number of retrieval responses holding it
  connected,        \* MMTPClient.connected
  connectPromise,   \* the promise returned by MMTPClient.connect()
  waitingResponses, \* MMTPClient.waitingResponses: a Map, in insertion order
  calls,            \* the request promises of the client, with their timers, by call
  wire,             \* the frames written to the client's connection and not yet received
  protocol,         \* the MMTPProtocol instance of a sender: its options and its key cache
  returned          \* the last call made on that instance, with what it returned or threw

serverVars == <<usePGP, mailboxes, heap, clients, connectionLimits, sock, lastFrame,
                sent, tasks, nreq, pubFiles, privFiles, publicKeys, delivered>>
clientVars == <<connected, connectPromise, waitingResponses, calls, wire>>
senderVars == <<protocol, returned>>
vars == <<serverVars, clientVars, senderVars>>

-----------------------------------------------------------------------------
(* Bounds of the model. *)

MaxSocks == 7   \* sockets 1..MaxSocks; socket 1 has its own remote address
MaxReqs == 4    \* data events per behaviour
MaxSends == 3   \* packets accepted by SEND per behaviour
MaxRefused == 2 \* refused connection attempts per behaviour of the connection spec

(* Program constants. *)

Difficulty == 2      \* the difficulty the server is constructed with
ConnectionCap == 5   \* the per-source limit tested in handleConnection

-----------------------------------------------------------------------------
(* Strings and addresses. *)

Lower == {"a","b","c","d","e","f","g","h","i","j","k","l","m",
          "n","o","p","q","r","s","t","u","v","w","x","y","z"}
Upper == {"A","B","C","D","E","F","G","H","I","J","K","L","M",
          "N","O","P","Q","R","S","T","U","V","W","X","Y","Z"}
Digit == {"0","1","2","3","4","5","6","7","8","9"}
LocalChars == Lower \cup Upper \cup Digit \cup {".", "_", "-"}
DomainChars == Lower \cup Upper \cup Digit \cup {".", "-"}

RECURSIVE Join(_)
Join(cs) == IF cs = <<>> THEN "" ELSE Head(cs) \o Join(Tail(cs))

\* /^\([a-zA-Z0-9._-]+\)%\([a-zA-Z0-9.-]+\)$/.test(email)
validateEmailFormat(email) ==
  LET n == Len(email) IN
  \E k \in 3..(n - 4) :
    /\ email[1] = "("
    /\ \A j \in 2..(k - 1) : email[j] \in LocalChars
    /\ email[k] = ")"
    /\ email[k + 1] = "%"
    /\ email[k + 2] = "("
    /\ \A j \in (k + 3)..(n - 1) : email[j] \in DomainChars
    /\ email[n] = ")"

AddrA == <<"(", "a", ")", "%", "(", "x", ")">>
AddrB == <<"(", "b", ")", "%", "(", "x", ")">>
AddrBad == <<"b", "@", "x">>          \* a conventional address, not in MMTP form
\* the name of a property every JavaScript object inherits from Object.prototype
AddrProto == <<"c", "o", "n", "s", "t", "r", "u", "c", "t", "o", "r">>
Addresses == {AddrA, AddrB, AddrBad, AddrProto}

\* this.mailboxes = {}: the keys at which a lookup finds an inherited property
InheritedKeys == {AddrProto}

-----------------------------------------------------------------------------
(* Integrity and HashCash. *)

ContentHiYo == [subject |-> "Hi", body |-> "Yo"]
ContentHiNo == [subject |-> "Hi", body |-> "No"]
\* the subjects and bodies senders write, and the contents {subject, body} made of them
Subjects == {"Hi", ""}
Bodies == {"Yo", "No"}
Contents == {[subject |-> subject, body |-> body] : subject \in Subjects, body \in Bodies}

\* JSON.stringify of a plaintext content object {subject, body}
JSONstringify(content) ==
  IF DOMAIN content = {"subject", "body"}
  THEN "{\"subject\":\"" \o content.subject \o "\",\"body\":\"" \o content.body \o "\"}"
  ELSE "{\"encrypted\":\"" \o content.encrypted \o "\"}"

\* `${version}:${difficulty}:${timestamp}:${resource}::${counter}:`
TokenString(difficulty, sender, recipient, timestamp, counter) ==
  "1:" \o ToString(difficulty) \o ":" \o ToString(timestamp) \o ":"
       \o Join(sender) \o ":" \o Join(recipient) \o ":" \o ToString(timestamp)
       \o "::" \o ToString(counter) \o ":"

\* crypto.createHash('sha256').update(data).digest('hex'), first 8 hex characters,
\* tabulated from the real function for the strings of the model.
SHA256Pairs ==
  { <<"{\"subject\":\"Hi\",\"body\":\"Yo\"}", <<"8","3","e","3","a","3","3","2">>>>,
    <<"{\"subject\":\"Hi\",\"body\":\"No\"}", <<"d","f","c","6","4","9","8","7">>>>,
    <<"{\"subject\":\"\",\"body\":\"Yo\"}", <<"a","e","9","e","7","4","2","9">>>>,
    <<"{\"subject\":\"\",\"body\":\"No\"}", <<"d","c","9","2","e","2","e","1">>>>,
    <<"{\"subject\":\"RE: Hi\",\"body\":\"Yo\"}", <<"9","f","2","e","9","2","3","d">>>>,
    <<"{\"subject\":\"RE: Hi\",\"body\":\"No\"}", <<"4","4","2","d","3","e","3","6">>>>,
    <<"{\"subject\":\"RE: \",\"body\":\"Yo\"}", <<"f","3","f","4","b","e","3","3">>>>,
    <<"{\"subject\":\"RE: \",\"body\":\"No\"}", <<"9","c","7","4","1","e","5","3">>>>,
    <<"{\"subject\":\"RE: Encrypted Message\",\"body\":\"Yo\"}", <<"e","8","e","2","7","3","c","f">>>>,
    <<"{\"subject\":\"RE: Encrypted Message\",\"body\":\"No\"}", <<"8","7","a","a","c","9","c","3">>>>,
    <<"1:0:1076:(a)%(x):(b)%(x):1076::0:", <<"8","9","9","6","4","3","7","0">>>>,
    <<"1:0:1215:(a)%(x):(b)%(x):1215::0:", <<"8","f","7","7","1","5","f","9">>>>,
    <<"1:0:1498:(b)%(x):(a)%(x):1498::0:", <<"0","7","2","f","b","8","c","4">>>>,
    <<"1:0:1315:(b)%(x):(a)%(x):1315::0:", <<"8","4","6","b","a","2","2","5">>>>,
    <<"1:0:2154:(a)%(x):(a)%(x):2154::0:", <<"2","0","6","b","3","3","7","0">>>>,
    <<"1:1:1076:(a)%(x):(b)%(x):1076::0:", <<"e","5","6","d","4","8","e","1">>>>,
    <<"1:1:1076:(a)%(x):(b)%(x):1076::1:", <<"7","1","a","f","6","9","f","0">>>>,
    <<"1:1:1076:(a)%(x):(b)%(x):1076::2:", <<"0","d","8","b","6","4","e","7">>>>,
    <<"1:1:1215:(a)%(x):(b)%(x):1215::0:", <<"6","d","d","d","0","a","1","7">>>>,
    <<"1:1:1215:(a)%(x):(b)%(x):1215::1:", <<"0","8","4","4","9","8","e","6">>>>,
    <<"1:1:1498:(b)%(x):(a)%(x):1498::0:", <<"6","0","7","3","f","c","e","d">>>>,
    <<"1:1:1498:(b)%(x):(a)%(x):1498::1:", <<"0","4","3","5","d","f","e","b">>>>,
    <<"1:1:1315:(b)%(x):(a)%(x):1315::0:", <<"0","e","7","d","6","1","f","2">>>>,
    <<"1:1:2154:(a)%(x):(a)%(x):2154::0:", <<"2","0","5","0","d","2","8","8">>>>,
    <<"1:1:2154:(a)%(x):(a)%(x):2154::1:", <<"6","6","e","8","5","3","3","0">>>>,
    <<"1:1:2154:(a)%(x):(a)%(x):2154::2:", <<"2","d","2","9","0","9","2","0">>>>,
    <<"1:1:2154:(a)%(x):(a)%(x):2154::3:", <<"0","d","8","3","0","d","6","9">>>>,
    <<"1:2:1076:(a)%(x):(b)%(x):1076::0:", <<"2","8","6","9","e","0","b","7">>>>,
    <<"1:2:1076:(a)%(x):(b)%(x):1076::1:", <<"1","5","b","0","2","4","8","c">>>>,
    <<"1:2:1076:(a)%(x):(b)%(x):1076::2:", <<"0","0","0","f","2","1","7","2">>>>,
    <<"1:2:1215:(a)%(x):(b)%(x):1215::0:", <<"0","0","d","7","5","6","7","8">>>>,
    <<"1:2:1498:(b)%(x):(a)%(x):1498::0:", <<"d","6","3","b","3","7","a","c">>>>,
    <<"1:2:1498:(b)%(x):(a)%(x):1498::1:", <<"d","f","4","4","e","b","a","a">>>>,
    <<"1:2:1498:(b)%(x):(a)%(x):1498::2:", <<"0","0","f","1","8","0","7","9">>>>,
    <<"1:2:1315:(b)%(x):(a)%(x):1315::0:", <<"0","0","9","2","6","7","1","5">>>>,
    <<"1:2:2154:(a)%(x):(a)%(x):2154::0:", <<"0","0","b","6","6","3","4","f">>>> }
SHA256Table ==
  [ s \in {pair[1] : pair \in SHA256Pairs} |->
      (CHOOSE pair \in SHA256Pairs : pair[1] = s)[2] ]

generateSHA256(data) == SHA256Table[data]

\* hash.startsWith('0'.repeat(n))
StartsWithZeros(hash, n) == n <= Len(hash) /\ \A j \in 1..n : hash[j] = "0"

\* verifyMessageIntegrity without the comparison of the hashes
verifyMessageIntegrity_Always(packet) == TRUE

verifyMessageIntegrity(packet) ==
  IF packet.meta.encrypted
  THEN TRUE
  ELSE generateSHA256(JSONstringify(packet.content)) = packet.verification.messageHash

\* verifyHashCash on an instance constructed with this difficulty
verifyHashCashAt(difficulty, packet) ==
  StartsWithZeros(generateSHA256(packet.meta.hashcashToken.token), difficulty)

\* verifyHashCash that builds the token again from the packet's own fields
verifyHashCash_Recomputes(packet) ==
  /\ packet.meta.hashcashToken.token =
       TokenString(Difficulty, packet.sender, packet.recipient, packet.meta.timestamp,
                   packet.meta.hashcashToken.counter)
  /\ verifyHashCashAt(Difficulty, packet)

\* ... on the server
verifyHashCash(packet) == verifyHashCashAt(Difficulty, packet)

RECURSIVE HashCashFrom(_, _, _, _, _)
\* the loop of lines 113-123, entered with this value of counter
HashCashFrom(difficulty, sender, recipient, timestamp, counter) ==
  LET token == TokenString(difficulty, sender, recipient, timestamp, counter) IN
  IF StartsWithZeros(generateSHA256(token), difficulty)
  THEN [token |-> token, counter |-> counter]
  ELSE HashCashFrom(difficulty, sender, recipient, timestamp, counter + 1)

\* generateHashCash without the search
generateHashCash_First(difficulty, sender, recipient, timestamp) ==
  [token |-> TokenString(difficulty, sender, recipient, timestamp, 0), counter |-> 0]

\* generateHashCash on an instance constructed with this difficulty
generateHashCash(difficulty, sender, recipient, timestamp) ==
  HashCashFrom(difficulty, sender, recipient, timestamp, 0)

-----------------------------------------------------------------------------
(* JavaScript objects with optional fields. *)

Has(obj, field) == field \in DOMAIN obj
With(obj, field, value) == (field :> value) @@ obj

\* obj with obj.meta[field] = value
WithMeta(obj, field, value) == [obj EXCEPT !.meta = With(obj.meta, field, value)]

-----------------------------------------------------------------------------
(* The OpenPGP engine, as far as the server uses it.  A key pair is named  *)
(* by a key id; armored texts are strings built from the key id, and any   *)
(* other text is not a key.                                                *)

KeyIds == {"kA", "kB"}
ArmoredPublic(k) == "PUB:" \o k
ArmoredPrivate(k) == "PRIV:" \o k
NoFile == "ENOENT"         \* the file does not exist
ArmoredTexts == {ArmoredPublic(k) : k \in KeyIds} \cup {"garbage"}

\* openpgp.readKey({armoredKey}): throws unless the text is an armored public key
readKeyThrows(armored) == \A k \in KeyIds : ArmoredPublic(k) # armored
readKey(armored) == CHOOSE k \in KeyIds : ArmoredPublic(k) = armored

\* the private key that generateKeyPair writes when it is given a passphrase
LockedPrivate(k) == "PRIV-LOCKED:" \o k
\* a private key that must be decrypted with its passphrase before it signs or decrypts
IsLocked(armored) == \E k \in KeyIds : LockedPrivate(k) = armored

\* openpgp.readPrivateKey({armoredKey})
readPrivateKeyThrows(armored) ==
  \A k \in KeyIds : ArmoredPrivate(k) # armored /\ LockedPrivate(k) # armored
readPrivateKey(armored) ==
  CHOOSE k \in KeyIds : ArmoredPrivate(k) = armored \/ LockedPrivate(k) = armored

PlainTexts == {JSONstringify(content) : content \in Contents}

\* openpgp.encrypt({message: text, encryptionKeys: k})
pgpEncrypt(text, k) == "PGP(" \o k \o "," \o text \o ")"
\* openpgp.decrypt({message, decryptionKeys: k}): throws unless encrypted to k
pgpDecryptThrows(armoredMessage, k) ==
  \A text \in PlainTexts : pgpEncrypt(text, k) # armoredMessage
pgpDecrypt(armoredMessage, k) ==
  CHOOSE text \in PlainTexts : pgpEncrypt(text, k) = armoredMessage

\* openpgp.sign({message: text, signingKeys: k, detached: true})
pgpSign(text, k) == "SIG(" \o k \o "," \o text \o ")"
\* openpgp.verify(...).signatures[0].verified resolves iff the signature is k's over text
pgpVerified(text, signature, k) == signature = pgpSign(text, k)

\* JSON.parse of a decrypted plaintext
JSONparseContent(text) ==
  CHOOSE c \in Contents : JSONstringify(c) = text

-----------------------------------------------------------------------------
(* Tags. *)

NoTags == << >>                                   \* {} : no category
TagsPromotion == [category |-> <<"promotion">>]
TagsHigh == [priority |-> <<"high">>]

\* message.meta.tags[category] || []
TagsOf(message, category) ==
  IF Has(message.meta.tags, category) THEN message.meta.tags[category] ELSE << >>

SeqIncludes(list, x) == \E j \in 1..Len(list) : list[j] = x

\* a hole of a sparse array, in an array of heap indices
Hole == 0

\* a property name that every object inherits from Object.prototype: looked up on an
\* object that has no such property of its own, it yields a function whose length is 1
InheritedNames == {"constructor"}

\* the keys of the tag and filter mappings of the model, in the order in which
\* Object.entries lists them
EntriesOrder == <<"category", "priority", "status", "custom", "mood", "constructor">>

RECURSIVE MatchFrom(_, _, _)
\* the loop of lines 160-169 from the k-th key on: "match" (the loop ends), "no" (return
\* false) or "throw" (messageTags.includes is not a function)
MatchFrom(message, tagFilters, k) ==
  IF k > Len(EntriesOrder)
  THEN "match"
  ELSE IF EntriesOrder[k] \notin DOMAIN tagFilters
  THEN MatchFrom(message, tagFilters, k + 1)
  ELSE LET category == EntriesOrder[k]
           filterTags == tagFilters[category]
           messageTags == TagsOf(message, category)
       IN IF ~Has(message.meta.tags, category) /\ category \in InheritedNames
          THEN IF Len(filterTags) > 0 THEN "throw" ELSE "no"
          ELSE IF Len(filterTags) > 0 /\ Len(messageTags) = 0
          THEN "no"
          ELSE IF ~\E j \in 1..Len(filterTags) : SeqIncludes(messageTags, filterTags[j])
          THEN "no"
          ELSE MatchFrom(message, tagFilters, k + 1)

\* the callback of messages.filter in filterMessagesByTags, lines 156-171
MatchOutcome(message, tagFilters) ==
  IF (~Has(message.meta, "tags")) \/ DOMAIN message.meta.tags = {}
  THEN "no"
  ELSE MatchFrom(message, tagFilters, 1)

MatchesTagFilters(message, tagFilters) == MatchOutcome(message, tagFilters) = "match"

\* filterMessagesByTags throws: the callback throws for a message of the array
filterThrows(messages, tagFilters, hp) ==
  /\ DOMAIN tagFilters # {}
  /\ \E j \in 1..Len(messages) :
       messages[j] # Hole /\ MatchOutcome(hp[messages[j]], tagFilters) = "throw"


\* MMTPProtocol.filterMessagesByTags on an array of heap indices; Array.prototype.filter
\* skips the holes of a sparse array
filterMessagesByTags(messages, tagFilters, hp) ==
  IF DOMAIN tagFilters = {}
  THEN messages
  ELSE SelectSeq(messages, LAMBDA m : m # Hole /\ MatchesTagFilters(hp[m], tagFilters))

-----------------------------------------------------------------------------
(* Packets and requests the clients submit. *)

TokenGood == [token |-> TokenString(Difficulty, AddrA, AddrB, 1076, 2), counter |-> 2]
TokenWeak == [token |-> TokenString(Difficulty, AddrA, AddrB, 1076, 0), counter |-> 0]

\* the object createMessagePacket builds, before signing and encryption
PlainPacket(messageId, to, content, tags) ==
  [ meta |-> [ type |-> "SEND", messageId |-> messageId, timestamp |-> 1076,
               hashcashToken |-> TokenGood, encrypted |-> FALSE, signed |-> FALSE,
               tags |-> tags ],
    sender |-> AddrA,
    recipient |-> to,
    content |-> content,
    verification |-> [messageHash |-> generateSHA256(JSONstringify(content))] ]

\* ... signed by the holder of key k
Signed(packet, k) ==
  [ packet EXCEPT !.meta.signed = TRUE,
                  !.verification = With(packet.verification, "signature",
                                        pgpSign(JSONstringify(packet.content), k)) ]

\* ... encrypted to key k
Encrypted(packet, k) ==
  [ packet EXCEPT !.meta.encrypted = TRUE,
                  !.content = [encrypted |-> pgpEncrypt(JSONstringify(packet.content), k)] ]

PktPromo == PlainPacket("m1", AddrB, ContentHiYo, TagsPromotion)
PktPlain == PlainPacket("m2", AddrB, ContentHiYo, NoTags)
PktSameId == PlainPacket("m1", AddrB, ContentHiYo, TagsHigh)   \* a second packet with id m1
PktTampered == [PktPlain EXCEPT !.content = ContentHiNo]      \* content changed after hashing
PktNoWork == [PktPlain EXCEPT !.meta.hashcashToken = TokenWeak]
PktSecure == Encrypted(Signed(PlainPacket("m3", AddrB, ContentHiYo, TagsPromotion), "kA"), "kB")
PktToA == PlainPacket("m4", AddrA, ContentHiYo, NoTags)
PktToBad == PlainPacket("m5", AddrBad, ContentHiYo, NoTags)
PktToProto == PlainPacket("m6", AddrProto, ContentHiYo, NoTags)

FilterPromotion == [category |-> <<"promotion", "coupon">>]
FilterHigh == [priority |-> <<"high">>]

Req(action, data) == [action |-> action, data |-> data]
\* one complete JSON document, as one chunk of a buffer
Doc(value) == [doc |-> value]
\* text that is not a complete JSON document
Fragment == [fragment |-> TRUE]

SendReq(packet) == Req("SEND", [packet |-> packet])

\* JSON.parse(data.toString()) throws unless the buffer is exactly one document
JSONparseThrows(buffer) == ~(Len(buffer) = 1 /\ Has(buffer[1], "doc"))
JSONparse(buffer) == buffer[1].doc

-----------------------------------------------------------------------------
(* Frames the server writes.  The field `re` is history: the buffer of the *)
(* data event the frame answers.  `refs` is history too: the heap indices  *)
(* of the packets a retrieval frame carries in `messages`.                 *)

NoFrame == [none |-> TRUE]
NullValue == [null |-> TRUE]      \* JSON null: the image of a hole of a sparse array

WelcomeFrame ==
  [status |-> "OK", message |-> "MMTP Server Ready", features |-> [tls |-> TRUE, pgp |-> usePGP]]
RateLimitFrame ==
  [status |-> "ERROR", message |-> "Rate limit exceeded. Try again later."]
ErrorFrame(re, message) == [re |-> re, status |-> "ERROR", message |-> message]
InvalidJSON == "Invalid request format. Must be valid JSON."

\* JSON.stringify of an array of packets, at the time of the write
Snapshot(messages, hp) ==
  [j \in 1..Len(messages) |-> IF messages[j] = Hole THEN NullValue ELSE hp[messages[j]]]

-----------------------------------------------------------------------------
(* Handlers.  A handler runs without interruption up to an await on file   *)
(* I/O (fs.readFile, fs.writeFile), where other events may be served; an   *)
(* await on a value that is already computed does not let another event    *)
(* in.  A configuration holds the server state a handler reads and writes, *)
(* the handler's own position and variables (`t`), and the frames it has   *)
(* written (`out`).  Run executes a configuration up to the next await on  *)
(* file I/O (t.pc begins with "await") or to the handler's end ("done").   *)

NewTask(s, buffer, request) ==
  [ sock |-> s, re |-> buffer,
    action |-> IF Has(request, "action") THEN request.action ELSE "undefined",
    data |-> IF Has(request, "data") THEN request.data ELSE NullValue,
    pc |-> "start", i |-> 0, obj |-> 0, ok |-> TRUE, err |-> "", buf |-> "" ]

Config(t) ==
  [ mb |-> mailboxes, hp |-> heap, pk |-> publicKeys, pub |-> pubFiles, dl |-> delivered,
    t |-> t, out |-> << >> ]

Goto(c, pc) == [c EXCEPT !.t.pc = pc]
\* a handler that writes its response twice
Finish_Twice(c, frame) == [c EXCEPT !.t.pc = "done", !.out = c.out \o <<frame, frame>>]
Finish(c, frame) == [c EXCEPT !.t.pc = "done", !.out = Append(c.out, frame)]
\* a catch clause that writes nothing
Throw_Silent(c) == Goto(c, "done")
Throw(c) == Finish(c, ErrorFrame(c.t.re, InvalidJSON))   \* caught by the data handler

IsRetrieval(t) == t.action \in {"RECEIVE", "RECEIVE_FILTERED"}

\* this.mailboxes[email][i] = packet, on a JavaScript array (i counts from 0)
ArraySet(array, i, value) ==
  IF i < Len(array)
  THEN [array EXCEPT ![i + 1] = value]
  ELSE array \o [j \in 1..(i - Len(array)) |-> Hole] \o <<value>>

\* delivered, with one more response for every packet of messages
CountDelivered(dl, messages) ==
  [o \in DOMAIN dl |-> dl[o] + Cardinality({j \in 1..Len(messages) : messages[j] = o})]

\* ppCheck without the HashCash test
ppCheck_NoHashCash(c) ==
  LET packet == c.hp[c.t.obj] IN
  IF ~verifyMessageIntegrity(packet)
  THEN [c EXCEPT !.t.ok = FALSE, !.t.err = "Message integrity check failed", !.t.pc = "pp_ret"]
  ELSE [c EXCEPT !.t.ok = TRUE, !.t.pc = "pp_decrypt"]

\* ppCheck with the HashCash test before the integrity test
ppCheck_HashCashFirst(c) ==
  LET packet == c.hp[c.t.obj] IN
  IF ~verifyHashCash(packet)
  THEN [c EXCEPT !.t.ok = FALSE, !.t.err = "HashCash verification failed - potential spam",
                 !.t.pc = "pp_ret"]
  ELSE IF ~verifyMessageIntegrity(packet)
  THEN [c EXCEPT !.t.ok = FALSE, !.t.err = "Message integrity check failed", !.t.pc = "pp_ret"]
  ELSE [c EXCEPT !.t.ok = TRUE, !.t.pc = "pp_decrypt"]

\* processPacket, lines 174-185: the two checks
ppCheck(c) ==
  LET packet == c.hp[c.t.obj] IN
  IF ~verifyMessageIntegrity(packet)
  THEN [c EXCEPT !.t.ok = FALSE, !.t.err = "Message integrity check failed", !.t.pc = "pp_ret"]
  ELSE IF ~verifyHashCash(packet)
  THEN [c EXCEPT !.t.ok = FALSE, !.t.err = "HashCash verification failed - potential spam",
                 !.t.pc = "pp_ret"]
  ELSE [c EXCEPT !.t.ok = TRUE, !.t.pc = "pp_decrypt"]

\* processPacket, lines 186-189: whether to decrypt, up to the read of the private key
ppDecrypt(c) ==
  LET packet == c.hp[c.t.obj] IN
  IF packet.meta.encrypted /\ usePGP /\ IsRetrieval(c.t)
     /\ privFiles[c.t.data.email] # NoFile
  THEN Goto(c, "await_readFile_priv")
  ELSE Goto(c, "pp_verify")

\* ppDecrypted without the catch clause of line 202
ppDecrypted_Rethrows(c) ==
  LET packet == c.hp[c.t.obj]
      armored == privFiles[c.t.data.email]
      throws == \/ readPrivateKeyThrows(armored)
                \/ IsLocked(armored)
                \/ ~Has(packet.content, "encrypted")
                \/ pgpDecryptThrows(packet.content.encrypted, readPrivateKey(armored))
      plain == JSONparseContent(pgpDecrypt(packet.content.encrypted, readPrivateKey(armored)))
  IN IF throws
     THEN Throw(c)
     ELSE [c EXCEPT !.hp[c.t.obj] = WithMeta([packet EXCEPT !.content = plain], "decrypted", TRUE),
                    !.t.pc = "pp_verify"]

\* processPacket, lines 190-204: after the private key file is read
ppDecrypted(c) ==
  LET packet == c.hp[c.t.obj]
      armored == privFiles[c.t.data.email]
      throws == \/ readPrivateKeyThrows(armored)
                \/ IsLocked(armored)
                \/ ~Has(packet.content, "encrypted")
                \/ pgpDecryptThrows(packet.content.encrypted, readPrivateKey(armored))
      plain == JSONparseContent(pgpDecrypt(packet.content.encrypted, readPrivateKey(armored)))
  IN IF throws
     THEN Goto(c, "pp_verify")
     ELSE [c EXCEPT !.hp[c.t.obj] = WithMeta([packet EXCEPT !.content = plain], "decrypted", TRUE),
                    !.t.pc = "pp_verify"]

\* the verification of lines 210-224 with the sender's key
ppVerifyWith(c, key) ==
  LET packet == c.hp[c.t.obj]
      verified == pgpVerified(JSONstringify(packet.content), packet.verification.signature, key)
  IN [c EXCEPT !.hp[c.t.obj] = WithMeta(packet, "signatureVerified", verified),
               !.t.pc = "pp_ret"]

\* processPacket, lines 206-209, and getPublicKey up to the read of the key file
ppVerify(c) ==
  LET packet == c.hp[c.t.obj] IN
  IF packet.meta.signed /\ Has(packet.verification, "signature") /\ usePGP
  THEN IF packet.sender \in DOMAIN c.pk
       THEN ppVerifyWith(c, c.pk[packet.sender])
       ELSE IF c.pub[packet.sender] # NoFile
       THEN Goto(c, "await_readFile_pub")
       ELSE Goto(c, "pp_ret")
  ELSE Goto(c, "pp_ret")

\* getPublicKey, lines 277-279, with the text read from the key file, then lines 210-224
ppGotPublicKey(c) ==
  LET packet == c.hp[c.t.obj] IN
  IF readKeyThrows(c.t.buf)
  THEN [c EXCEPT !.hp[c.t.obj] = WithMeta(packet, "signatureVerified", FALSE), !.t.pc = "pp_ret"]
  ELSE ppVerifyWith([c EXCEPT !.pk = (packet.sender :> readKey(c.t.buf)) @@ c.pk],
                    readKey(c.t.buf))


\* sendDeliver on a server that refuses a messageId it holds in the recipient's mailbox
sendDeliver_OncePerId(c) ==
  LET packet == c.hp[c.t.obj]
      recipient == packet.recipient
      box == IF recipient \in DOMAIN c.mb THEN c.mb[recipient] ELSE << >>
  IN IF ~c.t.ok
     THEN Finish([c EXCEPT !.hp = SubSeq(c.hp, 1, Len(c.hp) - 1),
                           !.dl = SubSeq(c.dl, 1, Len(c.dl) - 1)],
                 ErrorFrame(c.t.re, c.t.err))
     ELSE IF \E j \in 1..Len(box) : c.hp[box[j]].meta.messageId = packet.meta.messageId
     THEN Finish(c, ErrorFrame(c.t.re, "Duplicate message"))
     ELSE Finish([c EXCEPT !.mb = (recipient :> Append(box, c.t.obj)) @@ c.mb],
                 [ re |-> c.t.re, status |-> "OK",
                   message |-> "Message delivered successfully",
                   messageId |-> packet.meta.messageId,
                   encrypted |-> packet.meta.encrypted,
                   signed |-> packet.meta.signed ])

\* sendDeliver with unshift in the place of push
sendDeliver_Unshift(c) ==
  LET packet == c.hp[c.t.obj]
      recipient == packet.recipient
      box == IF recipient \in DOMAIN c.mb THEN c.mb[recipient] ELSE << >>
  IN IF ~c.t.ok
     THEN Finish([c EXCEPT !.hp = SubSeq(c.hp, 1, Len(c.hp) - 1),
                           !.dl = SubSeq(c.dl, 1, Len(c.dl) - 1)],
                 ErrorFrame(c.t.re, c.t.err))
     ELSE Finish([c EXCEPT !.mb = (recipient :> (<<c.t.obj>> \o box)) @@ c.mb],
                 [ re |-> c.t.re, status |-> "OK",
                   message |-> "Message delivered successfully",
                   messageId |-> packet.meta.messageId,
                   encrypted |-> packet.meta.encrypted,
                   signed |-> packet.meta.signed ])

\* sendDeliver with an assignment of a fresh array in the place of push
sendDeliver_Replaces(c) ==
  LET packet == c.hp[c.t.obj]
      recipient == packet.recipient
  IN IF ~c.t.ok
     THEN Finish([c EXCEPT !.hp = SubSeq(c.hp, 1, Len(c.hp) - 1),
                           !.dl = SubSeq(c.dl, 1, Len(c.dl) - 1)],
                 ErrorFrame(c.t.re, c.t.err))
     ELSE Finish([c EXCEPT !.mb = (recipient :> <<c.t.obj>>) @@ c.mb],
                 [ re |-> c.t.re, status |-> "OK",
                   message |-> "Message delivered successfully",
                   messageId |-> packet.meta.messageId,
                   encrypted |-> packet.meta.encrypted,
                   signed |-> packet.meta.signed ])

\* handleSendMail, lines 165-177: after processPacket has returned
sendDeliver(c) ==
  LET packet == c.hp[c.t.obj]
      recipient == packet.recipient
      box == IF recipient \in DOMAIN c.mb THEN c.mb[recipient] ELSE << >>
  IN IF ~c.t.ok
     THEN \* the rejected packet is referred to no more: its heap cell is given back
          Finish([c EXCEPT !.hp = SubSeq(c.hp, 1, Len(c.hp) - 1),
                           !.dl = SubSeq(c.dl, 1, Len(c.dl) - 1)],
                 ErrorFrame(c.t.re, c.t.err))
     ELSE IF recipient \notin DOMAIN c.mb /\ recipient \in InheritedKeys
     THEN \* this.mailboxes[recipient] is the inherited property: push is not a function
          Finish(IF c.t.obj = Len(c.hp)
                 THEN [c EXCEPT !.hp = SubSeq(c.hp, 1, Len(c.hp) - 1),
                                !.dl = SubSeq(c.dl, 1, Len(c.dl) - 1)]
                 ELSE c,
                 ErrorFrame(c.t.re, "Failed to process message: TypeError"))
     ELSE Finish([c EXCEPT !.mb = (recipient :> Append(box, c.t.obj)) @@ c.mb],
                 [ re |-> c.t.re, status |-> "OK",
                   message |-> "Message delivered successfully",
                   messageId |-> packet.meta.messageId,
                   encrypted |-> packet.meta.encrypted,
                   signed |-> packet.meta.signed ])

\* handleSendMail, lines 156-157 and 178-183
handleSendMail(c) ==
  IF ~Has(c.t.data, "packet")
  THEN Finish(c, ErrorFrame(c.t.re, "Failed to process message: TypeError"))
  ELSE [c EXCEPT !.hp = Append(c.hp, c.t.data.packet), !.dl = Append(c.dl, 0),
                 !.t.obj = Len(c.hp) + 1, !.t.pc = "pp_check"]

\* the head of the loops of lines 203-205 and 242-244
decryptLoop(c) ==
  LET email == c.t.data.email IN
  IF email \notin DOMAIN c.mb
  THEN Throw(c)                               \* this.mailboxes[email] is undefined
  ELSE IF ~(c.t.i < Len(c.mb[email]))
  THEN Goto(c, "after_loop")
  ELSE IF c.mb[email][c.t.i + 1] = Hole
  THEN Throw(c)                               \* packet is undefined
  ELSE IF c.hp[c.mb[email][c.t.i + 1]].meta.encrypted
  THEN [c EXCEPT !.t.obj = c.mb[email][c.t.i + 1], !.t.pc = "pp_check"]
  ELSE [c EXCEPT !.t.i = c.t.i + 1]

\* decryptStore on a server that creates the mailbox it does not find
decryptStore_Recreates(c) ==
  LET email == c.t.data.email
      box == IF email \in DOMAIN c.mb THEN c.mb[email] ELSE << >>
  IN IF ~c.t.ok
     THEN [c EXCEPT !.t.i = c.t.i + 1, !.t.pc = "loop"]
     ELSE [c EXCEPT !.mb = (email :> ArraySet(box, c.t.i, c.t.obj)) @@ c.mb,
                    !.t.i = c.t.i + 1, !.t.pc = "loop"]

\* lines 210-212 and 249-251: after processPacket has returned inside the loop
decryptStore(c) ==
  LET email == c.t.data.email IN
  IF ~c.t.ok
  THEN [c EXCEPT !.t.i = c.t.i + 1, !.t.pc = "loop"]
  ELSE IF email \notin DOMAIN c.mb
  THEN Throw(c)                               \* this.mailboxes[email] is undefined
  ELSE [c EXCEPT !.mb[email] = ArraySet(c.mb[email], c.t.i, c.t.obj),
                 !.t.i = c.t.i + 1, !.t.pc = "loop"]

\* receiveReply without the delete of line 221
receiveReply_NoDelete(c) ==
  LET email == c.t.data.email
      messages == c.mb[email]
  IN Finish([c EXCEPT !.dl = CountDelivered(c.dl, messages)],
            [ re |-> c.t.re, status |-> "OK", messages |-> Snapshot(messages, c.hp),
              count |-> Len(messages), refs |-> messages ])

\* handleReceiveMail, lines 216-221
receiveReply(c) ==
  LET email == c.t.data.email
      messages == c.mb[email]
  IN Finish([c EXCEPT !.mb = [a \in DOMAIN c.mb \ {email} |-> c.mb[a]],
                      !.dl = CountDelivered(c.dl, messages)],
            [ re |-> c.t.re, status |-> "OK", messages |-> Snapshot(messages, c.hp),
              count |-> Len(messages), refs |-> messages ])

\* handleReceiveFilteredMail, lines 261-263: the entries kept in the mailbox
KeepUnmatched(box, filteredMessages, hp) ==
  SelectSeq(box, LAMBDA message :
    /\ message # Hole
    /\ ~\E j \in 1..Len(filteredMessages) :
           hp[filteredMessages[j]].meta.messageId = hp[message].meta.messageId)

\* handleReceiveFilteredMail, lines 255-272
receiveFilteredReply(c) ==
  LET email == c.t.data.email
      filtering == Has(c.t.data, "tagFilters") /\ DOMAIN c.t.data.tagFilters # {}
      filteredMessages ==
        IF filtering
        THEN filterMessagesByTags(c.mb[email], c.t.data.tagFilters, c.hp)
        ELSE c.mb[email]
      mb2 == IF filtering
             THEN [c.mb EXCEPT ![email] = KeepUnmatched(c.mb[email], filteredMessages, c.hp)]
             ELSE [a \in DOMAIN c.mb \ {email} |-> c.mb[a]]
  IN IF filtering /\ filterThrows(c.mb[email], c.t.data.tagFilters, c.hp)
     THEN Throw(c)                            \* messageTags.includes is not a function
     ELSE
     Finish([c EXCEPT !.mb = mb2, !.dl = CountDelivered(c.dl, filteredMessages)],
            [ re |-> c.t.re, status |-> "OK",
              messages |-> Snapshot(filteredMessages, c.hp),
              count |-> Len(filteredMessages), refs |-> filteredMessages ]
            @@ (IF Has(c.t.data, "tagFilters")
                THEN [tagFilters |-> c.t.data.tagFilters] ELSE << >>))

\* handleReceiveMail, lines 186-202, and handleReceiveFilteredMail, lines 224-241
handleRetrieve(c) ==
  LET email == c.t.data.email IN
  IF c.t.data = NullValue
  THEN Throw(c)                               \* destructuring of undefined
  ELSE IF ~(Has(c.t.data, "email") /\ validateEmailFormat(email))
  THEN Finish(c, ErrorFrame(c.t.re, "Invalid email format"))
  ELSE IF email \notin DOMAIN c.mb \/ Len(c.mb[email]) = 0
  THEN Finish(c, [ re |-> c.t.re, status |-> "OK", messages |-> << >>, count |-> 0,
                   refs |-> << >> ]
                 @@ (IF c.t.action = "RECEIVE_FILTERED" /\ Has(c.t.data, "tagFilters")
                     THEN [tagFilters |-> c.t.data.tagFilters] ELSE << >>))
  ELSE IF usePGP
  THEN [c EXCEPT !.t.i = 0, !.t.pc = "loop"]
  ELSE Goto(c, "after_loop")


\* the number of occurrences of x in list
Occurrences(list, x) == Cardinality({j \in 1..Len(list) : list[j] = x})

RECURSIVE SumOver(_, _)
\* the sum of f[j] over the indices j of set
SumOver(f, set) ==
  IF set = {} THEN 0
  ELSE LET j == CHOOSE k \in set : TRUE IN f[j] + SumOver(f, set \ {j})

\* MMTPServer.countMessagesByTags.  For a category whose name every object inherits,
\* counts[category] is the inherited function, so line 311 creates no entry and line
\* 315 counts on that function: the category is no property of counts.
countMessagesByTags(messages, hp) ==
  LET tagged == {j \in 1..Len(messages) :
                   messages[j] # Hole /\ Has(hp[messages[j]].meta, "tags")}
      TagsAt(j) == hp[messages[j]].meta.tags
      categories == UNION {DOMAIN TagsAt(j) : j \in tagged} \ InheritedNames
      ListAt(j, category) == IF category \in DOMAIN TagsAt(j) THEN TagsAt(j)[category] ELSE << >>
      TagNames(category) ==
        UNION {{ListAt(j, category)[k] : k \in 1..Len(ListAt(j, category))} : j \in tagged}
  IN [category \in categories |->
       [tag \in TagNames(category) |->
         SumOver([j \in tagged |-> Occurrences(ListAt(j, category), tag)], tagged)]]

\* a CHECK that consumes what it counts
handleCheckMail_Consumes(c) ==
  LET email == c.t.data.email
      messages == IF email \in DOMAIN c.mb THEN c.mb[email] ELSE << >>
  IN IF c.t.data = NullValue
     THEN Throw(c)
     ELSE IF ~(Has(c.t.data, "email") /\ validateEmailFormat(email))
     THEN Finish(c, ErrorFrame(c.t.re, "Invalid email format"))
     ELSE Finish([c EXCEPT !.mb = [a \in DOMAIN c.mb \ {email} |-> c.mb[a]]],
                 [ re |-> c.t.re, status |-> "OK", count |-> Len(messages),
                   totalCount |-> Len(messages), tagCounts |-> << >> ])

\* handleCheckMail
handleCheckMail(c) ==
  LET email == c.t.data.email
      messages == IF email \in DOMAIN c.mb THEN c.mb[email] ELSE << >>
      filtering == Has(c.t.data, "tagFilters") /\ DOMAIN c.t.data.tagFilters # {}
      filteredCount ==
        IF Len(messages) > 0 /\ filtering
        THEN Len(filterMessagesByTags(messages, c.t.data.tagFilters, c.hp))
        ELSE Len(messages)
      tagCounts == IF Len(messages) > 0 THEN countMessagesByTags(messages, c.hp) ELSE << >>
  IN IF c.t.data = NullValue
     THEN Throw(c)                            \* destructuring of undefined
     ELSE IF ~(Has(c.t.data, "email") /\ validateEmailFormat(email))
     THEN Finish(c, ErrorFrame(c.t.re, "Invalid email format"))
     ELSE IF Len(messages) > 0 /\ filtering
             /\ filterThrows(messages, c.t.data.tagFilters, c.hp)
     THEN Throw(c)                            \* messageTags.includes is not a function
     ELSE Finish(c, [ re |-> c.t.re, status |-> "OK", count |-> filteredCount,
                      totalCount |-> Len(messages), tagCounts |-> tagCounts ])

\* MMTPProtocol.tagCategories, as constructed
TagCategories ==
  [ priority |-> <<"high", "medium", "low">>,
    category |-> <<"personal", "work", "finance", "social", "promotion", "coupon", "shop",
                   "notification">>,
    status |-> <<"urgent", "important", "information", "action_required">>,
    custom |-> << >> ]

\* handleGetTagCategories
handleGetTagCategories(c) ==
  Finish(c, [re |-> c.t.re, status |-> "OK", tagCategories |-> TagCategories])

PGPDisabled == "PGP support is not enabled on this server"

\* handleRegisterKey and importPublicKey, up to the write of the key file
handleRegisterKey(c) ==
  IF ~usePGP
  THEN Finish(c, ErrorFrame(c.t.re, PGPDisabled))
  ELSE IF c.t.data = NullValue
  THEN Finish(c, ErrorFrame(c.t.re, "Failed to register key: TypeError"))
  ELSE IF ~(Has(c.t.data, "email") /\ validateEmailFormat(c.t.data.email))
  THEN Finish(c, ErrorFrame(c.t.re, "Invalid email format"))
  ELSE IF ~Has(c.t.data, "publicKey") \/ readKeyThrows(c.t.data.publicKey)
  THEN Finish(c, ErrorFrame(c.t.re, "Failed to register key: Misformed armored text"))
  ELSE [c EXCEPT !.t.buf = c.t.data.publicKey, !.t.pc = "await_writeFile_pub"]

\* importPublicKey, line 290, and handleRegisterKey, lines 340-343
registerReply(c) ==
  Finish([c EXCEPT !.pk = (c.t.data.email :> readKey(c.t.buf)) @@ c.pk],
         [re |-> c.t.re, status |-> "OK", message |-> "Public key registered successfully"])

\* handleRequestPublicKey without the existsSync of line 369
handleRequestPublicKey_NoExistsCheck(c) ==
  IF ~usePGP
  THEN Finish(c, ErrorFrame(c.t.re, PGPDisabled))
  ELSE IF c.t.data = NullValue
  THEN Finish(c, ErrorFrame(c.t.re, "Failed to retrieve public key: TypeError"))
  ELSE IF ~(Has(c.t.data, "email") /\ validateEmailFormat(c.t.data.email))
  THEN Finish(c, ErrorFrame(c.t.re, "Invalid email format"))
  ELSE Goto(c, "await_readFile_req")

\* handleRequestPublicKey, up to the read of the key file
handleRequestPublicKey(c) ==
  IF ~usePGP
  THEN Finish(c, ErrorFrame(c.t.re, PGPDisabled))
  ELSE IF c.t.data = NullValue
  THEN Finish(c, ErrorFrame(c.t.re, "Failed to retrieve public key: TypeError"))
  ELSE IF ~(Has(c.t.data, "email") /\ validateEmailFormat(c.t.data.email))
  THEN Finish(c, ErrorFrame(c.t.re, "Invalid email format"))
  ELSE IF c.pub[c.t.data.email] = NoFile
  THEN Finish(c, ErrorFrame(c.t.re, "Public key not found for this email"))
  ELSE Goto(c, "await_readFile_req")

\* handleRequestPublicKey, lines 376-381
requestKeyReply(c) ==
  Finish(c, [ re |-> c.t.re, status |-> "OK", email |-> c.t.data.email,
              publicKey |-> c.pub[c.t.data.email] ])

KnownActions == {"SEND", "RECEIVE", "RECEIVE_FILTERED", "CHECK", "REGISTER_KEY",
                 "REQUEST_PUBLIC_KEY", "GET_TAG_CATEGORIES"}

\* handleRequest: the switch on request.action
handleRequest(c) ==
  CASE c.t.action = "SEND" -> handleSendMail(c)
    [] c.t.action = "RECEIVE" -> handleRetrieve(c)
    [] c.t.action = "RECEIVE_FILTERED" -> handleRetrieve(c)
    [] c.t.action = "CHECK" -> handleCheckMail(c)
    [] c.t.action = "REGISTER_KEY" -> handleRegisterKey(c)
    [] c.t.action = "REQUEST_PUBLIC_KEY" -> handleRequestPublicKey(c)
    [] c.t.action = "GET_TAG_CATEGORIES" -> handleGetTagCategories(c)
    [] OTHER -> Finish(c, ErrorFrame(c.t.re, "Unknown action"))

\* where processPacket returns to
ppReturn(c) == IF c.t.action = "SEND" THEN sendDeliver(c) ELSE decryptStore(c)

\* the end of the decryption loop
afterLoop(c) == IF c.t.action = "RECEIVE" THEN receiveReply(c) ELSE receiveFilteredReply(c)

RECURSIVE Run(_)
Run(c) ==
  CASE c.t.pc = "start" -> Run(handleRequest(c))
    [] c.t.pc = "pp_check" -> Run(ppCheck(c))
    [] c.t.pc = "pp_decrypt" -> Run(ppDecrypt(c))
    [] c.t.pc = "pp_verify" -> Run(ppVerify(c))
    [] c.t.pc = "pp_ret" -> Run(ppReturn(c))
    [] c.t.pc = "loop" -> Run(decryptLoop(c))
    [] c.t.pc = "after_loop" -> Run(afterLoop(c))
    [] OTHER -> c

\* what the completion of the awaited file operation does, up to the code after the await
Continue(c) ==
  CASE c.t.pc = "await_readFile_priv" -> ppDecrypted(c)
    [] c.t.pc = "await_readFile_pub" ->
         [c EXCEPT !.t.buf = c.pub[c.hp[c.t.obj].sender], !.t.pc = "await_then_pub"]
    [] c.t.pc = "await_then_pub" -> ppGotPublicKey(c)
    [] c.t.pc = "await_writeFile_pub" ->
         [c EXCEPT !.pub[c.t.data.email] = c.t.buf, !.t.pc = "await_then_import"]
    [] c.t.pc = "await_then_import" -> registerReply(c)
    [] c.t.pc = "await_readFile_req" -> requestKeyReply(c)

-----------------------------------------------------------------------------
(* The server's state and its events. *)

Socks == 1..MaxSocks
\* socket.remoteAddress: socket 1 connects from one host, every other socket from another
RemoteAddress(s) == IF s = 1 THEN "10.0.0.1" ELSE "10.0.0.2"

\* this.connectionLimits[clientIp] || 0
LimitOf(limits, ip) == IF ip \in DOMAIN limits THEN limits[ip] ELSE 0

NoKeys == [a \in Addresses |-> NoFile]
\* a key store directory in which a co-located client has generated kB for AddrB and
\* kA for AddrA
PublicKeyFiles == [a \in Addresses |-> CASE a = AddrA -> ArmoredPublic("kA")
                                         [] a = AddrB -> ArmoredPublic("kB")
                                         [] OTHER -> NoFile]
PrivateKeyFiles == [a \in Addresses |-> CASE a = AddrA -> ArmoredPrivate("kA")
                                          [] a = AddrB -> ArmoredPrivate("kB")
                                          [] OTHER -> NoFile]

\* the MMTPServer constructor and the MMTPClient constructor; the key store directory is
\* empty or holds both key pairs
Init ==
  /\ usePGP \in BOOLEAN
  /\ mailboxes = << >>
  /\ heap = << >>
  /\ clients = {}
  /\ connectionLimits = << >>
  /\ sock = [s \in Socks |-> "closed"]
  /\ lastFrame = [s \in Socks |-> NoFrame]
  /\ sent = [s \in Socks |-> 0]
  /\ tasks = << >>
  /\ nreq = 0
  /\ \/ pubFiles = NoKeys /\ privFiles = NoKeys
     \/ usePGP /\ pubFiles = PublicKeyFiles /\ privFiles = PrivateKeyFiles
  /\ publicKeys = << >>
  /\ delivered = << >>
  /\ connected = FALSE
  /\ connectPromise = [state |-> "idle", value |-> NoFrame]
  /\ waitingResponses = << >>
  /\ calls = << >>
  /\ wire = << >>
  /\ protocol = NoFrame
  /\ returned = NoFrame

\* socket.write(frame): lost when the socket is no longer open
WriteAll(frames, s, socks) ==
  IF Len(frames) = 0 \/ socks[s] # "open"
  THEN [last |-> lastFrame, n |-> sent]
  ELSE [ last |-> [lastFrame EXCEPT ![s] = frames[Len(frames)]],
         n |-> [sent EXCEPT ![s] = @ + Len(frames)] ]

\* the state after a handler has run to configuration c as request r
Commit(c, r) ==
  /\ mailboxes' = c.mb
  /\ heap' = c.hp
  /\ publicKeys' = c.pk
  /\ pubFiles' = c.pub
  /\ delivered' = c.dl
  /\ tasks' = IF c.t.pc = "done"
              THEN [q \in DOMAIN tasks \ {r} |-> tasks[q]]
              ELSE (r :> c.t) @@ tasks
  /\ lastFrame' = WriteAll(c.out, c.t.sock, sock).last
  /\ sent' = WriteAll(c.out, c.t.sock, sock).n

\* Accept with the test of line 74 off by one
Accept_OffByOne(s) ==
  LET ip == RemoteAddress(s)
      count == LimitOf(connectionLimits, ip) + 1
  IN /\ sock[s] = "closed"
     /\ \A r \in DOMAIN tasks : tasks[r].sock # s
     /\ count <= ConnectionCap + MaxRefused
     /\ connectionLimits' = (ip :> count) @@ connectionLimits
     /\ IF count > ConnectionCap + 1
        THEN /\ lastFrame' = [lastFrame EXCEPT ![s] = RateLimitFrame]
             /\ sock' = [sock EXCEPT ![s] = "refused"]
             /\ UNCHANGED clients
        ELSE /\ clients' = clients \cup {s}
             /\ lastFrame' = [lastFrame EXCEPT ![s] = WelcomeFrame]
             /\ sock' = [sock EXCEPT ![s] = "open"]
     /\ sent' = [sent EXCEPT ![s] = 1]
     /\ UNCHANGED <<usePGP, mailboxes, heap, tasks, nreq, pubFiles, privFiles, publicKeys,
                    delivered>>

\* handleConnection, lines 71-83 and 104-111
Accept(s) ==
  LET ip == RemoteAddress(s)
      count == LimitOf(connectionLimits, ip) + 1
  IN /\ sock[s] = "closed"
     /\ \A r \in DOMAIN tasks : tasks[r].sock # s
     /\ count <= ConnectionCap + MaxRefused
     /\ connectionLimits' = (ip :> count) @@ connectionLimits
     /\ IF count > ConnectionCap
        THEN /\ lastFrame' = [lastFrame EXCEPT ![s] = RateLimitFrame]
             /\ sock' = [sock EXCEPT ![s] = "refused"]
             /\ UNCHANGED clients
        ELSE /\ clients' = clients \cup {s}
             /\ lastFrame' = [lastFrame EXCEPT ![s] = WelcomeFrame]
             /\ sock' = [sock EXCEPT ![s] = "open"]
     /\ sent' = [sent EXCEPT ![s] = 1]
     /\ UNCHANGED <<usePGP, mailboxes, heap, tasks, nreq, pubFiles, privFiles, publicKeys,
                    delivered>>

\* the 'close' handler of lines 95-99
onClose(s) ==
  /\ clients' = clients \ {s}
  /\ connectionLimits' = [connectionLimits EXCEPT ![RemoteAddress(s)] = @ - 1]

\* a registered connection ends: the peer closes it
Close(s) ==
  /\ sock[s] = "open"
  /\ onClose(s)
  /\ sock' = [sock EXCEPT ![s] = "closed"]
  /\ lastFrame' = [lastFrame EXCEPT ![s] = NoFrame]
  /\ sent' = [sent EXCEPT ![s] = 0]
  /\ UNCHANGED <<usePGP, mailboxes, heap, tasks, nreq, pubFiles, privFiles, publicKeys,
                 delivered>>

\* a registered connection fails: the 'error' handler of lines 100-103 runs, the socket is
\* destroyed and its 'close' event follows before any other event is served
SocketError(s) ==
  /\ sock[s] = "open"
  /\ onClose(s)
  /\ sock' = [sock EXCEPT ![s] = "closed"]
  /\ lastFrame' = [lastFrame EXCEPT ![s] = NoFrame]
  /\ sent' = [sent EXCEPT ![s] = 0]
  /\ UNCHANGED <<usePGP, mailboxes, heap, tasks, nreq, pubFiles, privFiles, publicKeys,
                 delivered>>

\* a refused connection is gone: handleConnection returned at line 80, before any handler
\* was attached to the socket
CloseRefused(s) ==
  /\ sock[s] = "refused"
  /\ sock' = [sock EXCEPT ![s] = "closed"]
  /\ lastFrame' = [lastFrame EXCEPT ![s] = NoFrame]
  /\ sent' = [sent EXCEPT ![s] = 0]
  /\ UNCHANGED <<usePGP, mailboxes, heap, clients, connectionLimits, tasks, nreq, pubFiles,
                 privFiles, publicKeys, delivered>>

IsSend(buffer) ==
  /\ ~JSONparseThrows(buffer)
  /\ Has(JSONparse(buffer), "action")
  /\ JSONparse(buffer).action = "SEND"

\* the 'data' handler of lines 84-94
Data(s, buffer) ==
  /\ sock[s] = "open"
  /\ nreq < MaxReqs
  /\ IsSend(buffer) => Len(heap) < MaxSends
  /\ nreq' = nreq + 1
  /\ IF JSONparseThrows(buffer) \/ JSONparse(buffer) = NullValue
     THEN Commit(Throw(Config([sock |-> s, re |-> buffer, pc |-> "start"])), nreq + 1)
     ELSE Commit(Run(Config(NewTask(s, buffer, JSONparse(buffer)))), nreq + 1)
  /\ UNCHANGED <<usePGP, clients, connectionLimits, sock, privFiles>>

\* the file operation a handler awaits completes
Resume(r) ==
  /\ r \in DOMAIN tasks
  /\ Commit(Run(Continue(Config(tasks[r]))), r)
  /\ UNCHANGED <<usePGP, clients, connectionLimits, sock, nreq, privFiles>>

-----------------------------------------------------------------------------
(* Specifications. *)

MailSocks == {1}

SentPackets ==
  {PktPromo, PktPlain, PktSameId, PktTampered, PktNoWork, PktSecure, PktToBad, PktToProto}

RetrievalData ==
  {[email |-> AddrB], [email |-> AddrBad]}
  \cup {[email |-> AddrB, tagFilters |-> f] : f \in {NoTags, FilterPromotion, FilterHigh}}

\* the buffers of the data events: well-formed requests, a request with an unknown action,
\* a fragment of a request, two requests in one buffer, the document null
Requests ==
  {SendReq(p) : p \in SentPackets}
  \cup {Req("RECEIVE", [email |-> AddrB]), Req("RECEIVE", [email |-> AddrBad])}
  \cup {Req("RECEIVE_FILTERED", d) : d \in RetrievalData}
  \cup {Req("CHECK", d) : d \in RetrievalData}
  \cup {Req("DELETE", [email |-> AddrB])}
Buffers ==
  {<<Doc(q)>> : q \in Requests}
  \cup { <<Fragment>>, <<Doc(Req("CHECK", [email |-> AddrB])), Doc(Req("RECEIVE", [email |-> AddrB]))>>,
         <<Doc(NullValue)>> }

\* clients that wait for the response to a request before they send the next one
Next ==
  \/ \E s \in MailSocks : Accept(s) /\ UNCHANGED <<clientVars, senderVars>>
  \/ \E s \in MailSocks, buffer \in Buffers :
       DOMAIN tasks = {} /\ Data(s, buffer) /\ UNCHANGED <<clientVars, senderVars>>
  \/ \E r \in 1..MaxReqs : Resume(r) /\ UNCHANGED <<clientVars, senderVars>>

Spec == Init /\ [][Next]_vars

-----------------------------------------------------------------------------
(* Vocabulary of the properties. *)

\* in this step a handler writes its response to the open socket s
Answers(s) == sock[s] = "open" /\ sent'[s] = sent[s] + 1

\* frame answers a data event whose buffer is one document with this action
IsAnswerTo(frame, action) ==
  /\ Has(frame, "re")
  /\ Len(frame.re) = 1
  /\ Has(frame.re[1], "doc")
  /\ Has(frame.re[1].doc, "action")
  /\ frame.re[1].doc.action = action
  /\ Has(frame.re[1].doc, "data")

\* the data of the request that frame answers
DataOf(frame) == frame.re[1].doc.data

\* the entries queued for address a
MailboxOf(mb, a) == IF a \in DOMAIN mb THEN mb[a] ELSE << >>

\* the packets a server state stores, mailbox by mailbox
Stored(mb, hp) == [a \in DOMAIN mb |-> Snapshot(mb[a], hp)]

\* the two checks of processPacket that can fail
PassesChecks(packet) == verifyMessageIntegrity(packet) /\ verifyHashCash(packet)

\* packet as processPacket leaves it on a SEND: signatureVerified may have been added
SameButVerified(stored, packet) ==
  /\ DOMAIN stored = DOMAIN packet
  /\ \A f \in DOMAIN packet \ {"meta"} : stored[f] = packet[f]
  /\ \A f \in DOMAIN packet.meta : f \in DOMAIN stored.meta /\ stored.meta[f] = packet.meta[f]
  /\ DOMAIN stored.meta \subseteq DOMAIN packet.meta \cup {"signatureVerified"}

-----------------------------------------------------------------------------
(* SEND *)

\* what C1 says of the step in which the server answers the SEND of packet on socket s
SendStored(s, packet) ==
  LET frame == lastFrame'[s] IN
  /\ frame.status = "OK"
  /\ \E o \in DOMAIN heap' :
       /\ SameButVerified(heap'[o], packet)
       /\ DOMAIN mailboxes' = DOMAIN mailboxes \cup {packet.recipient}
       /\ mailboxes'[packet.recipient] = Append(MailboxOf(mailboxes, packet.recipient), o)
       /\ \A a \in DOMAIN mailboxes \ {packet.recipient} : mailboxes'[a] = mailboxes[a]
       /\ \A a \in DOMAIN mailboxes : \A j \in 1..Len(mailboxes[a]) : mailboxes[a][j] # o
       /\ Has(frame, "messageId") /\ frame.messageId = heap'[o].meta.messageId
       /\ Has(frame, "encrypted") /\ frame.encrypted = heap'[o].meta.encrypted
       /\ Has(frame, "signed") /\ frame.signed = heap'[o].meta.signed

\* C1: a SEND whose packet passes processPacket appends exactly that packet to the end of
\* the mailbox of packet.recipient (created if absent), leaves every other mailbox
\* unchanged, and is answered OK with the stored packet's messageId, encrypted and signed.
C1_SendAppends ==
  [][\A s \in Socks :
       (/\ Answers(s)
        /\ IsAnswerTo(lastFrame'[s], "SEND")
        /\ Has(DataOf(lastFrame'[s]), "packet")
        /\ PassesChecks(DataOf(lastFrame'[s]).packet))
       => SendStored(s, DataOf(lastFrame'[s]).packet)]_vars

\* C2: a SEND whose packet fails the integrity check or the HashCash check is answered
\* ERROR with the message of the failed check, and no mailbox is created or modified: the
\* stored packets are the same before and after.
C2_FailedSendStoresNothing ==
  [][\A s \in Socks :
       (/\ Answers(s)
        /\ IsAnswerTo(lastFrame'[s], "SEND")
        /\ Has(DataOf(lastFrame'[s]), "packet")
        /\ ~PassesChecks(DataOf(lastFrame'[s]).packet))
       => /\ lastFrame'[s].status = "ERROR"
          /\ lastFrame'[s].message =
               IF ~verifyMessageIntegrity(DataOf(lastFrame'[s]).packet)
               THEN "Message integrity check failed"
               ELSE "HashCash verification failed - potential spam"
          /\ mailboxes' = mailboxes
          /\ Stored(mailboxes', heap') = Stored(mailboxes, heap)]_vars

\* a SEND has been refused for its HashCash token while packets are queued
C2_Witness ==
  \E s \in Socks :
    /\ IsAnswerTo(lastFrame[s], "SEND")
    /\ lastFrame[s].status = "ERROR"
    /\ lastFrame[s].message = "HashCash verification failed - potential spam"
    /\ \E a \in DOMAIN mailboxes : Len(mailboxes[a]) > 0

-----------------------------------------------------------------------------
(* RECEIVE, RECEIVE_FILTERED, CHECK *)

\* frame answers a request of this action for a well-formed address
IsAnswerFor(frame, action) ==
  /\ IsAnswerTo(frame, action)
  /\ Has(DataOf(frame), "email")
  /\ validateEmailFormat(DataOf(frame).email)

\* the request that frame answers carries a filter with at least one category
HasFilter(frame) ==
  Has(DataOf(frame), "tagFilters") /\ DOMAIN DataOf(frame).tagFilters # {}

\* the position of entry x in list
Pos(list, x) == CHOOSE k \in 1..Len(list) : list[k] = x

\* the entries of sub are entries of list, in the order they have in list
InOrderOf(sub, list) ==
  /\ \A i \in 1..Len(sub) : SeqIncludes(list, sub[i])
  /\ \A i, j \in 1..Len(sub) : i < j => Pos(list, sub[i]) < Pos(list, sub[j])

\* C3: with no other request in between, a RECEIVE for an address that holds n >= 1
\* packets returns all n of them with count = n and leaves nothing queued for the address,
\* so that a RECEIVE that follows immediately returns no message and count 0; a RECEIVE on
\* an empty or absent mailbox returns no message, count 0, and changes nothing.
C3_ReceiveDrains ==
  [][\A s \in Socks :
       (Answers(s) /\ IsAnswerFor(lastFrame'[s], "RECEIVE"))
       => LET frame == lastFrame'[s]
              email == DataOf(frame).email
              box == MailboxOf(mailboxes, email)
          IN /\ frame.status = "OK"
             /\ frame.count = Len(box)
             /\ frame.refs = box
             /\ frame.messages = Snapshot(box, heap')
             /\ \A j \in 1..Len(box) :
                  frame.messages[j].meta.messageId = heap[box[j]].meta.messageId
             /\ Len(box) >= 1 =>
                  /\ email \notin DOMAIN mailboxes'
                  /\ \A a \in DOMAIN mailboxes \ {email} :
                       a \in DOMAIN mailboxes' /\ mailboxes'[a] = mailboxes[a]
             /\ Len(box) = 0 => mailboxes' = mailboxes /\ heap' = heap
             /\ (/\ IsAnswerFor(lastFrame[s], "RECEIVE")
                 /\ DataOf(lastFrame[s]).email = email)
                => frame.messages = << >> /\ frame.count = 0]_vars

\* a RECEIVE has returned two packets and emptied the mailbox
C3_Witness ==
  \E s \in Socks :
    /\ IsAnswerFor(lastFrame[s], "RECEIVE")
    /\ lastFrame[s].status = "OK"
    /\ lastFrame[s].count = 2
    /\ DataOf(lastFrame[s]).email \notin DOMAIN mailboxes

\* C4: a RECEIVE_FILTERED with a non-empty tagFilters on a mailbox M returns exactly the
\* entries of M that match the filter and leaves queued exactly the entries of M that do
\* not match, whatever M holds, entries that share a messageId included.
C4_FilteredPartition ==
  [][\A s \in Socks :
       (/\ Answers(s)
        /\ IsAnswerFor(lastFrame'[s], "RECEIVE_FILTERED")
        /\ HasFilter(lastFrame'[s])
        /\ Len(MailboxOf(mailboxes, DataOf(lastFrame'[s]).email)) >= 1)
       => LET frame == lastFrame'[s]
              email == DataOf(frame).email
              M == mailboxes[email]
              Matches(o) == MatchesTagFilters(heap'[o], DataOf(frame).tagFilters)
          IN /\ frame.status = "OK"
             /\ frame.refs = SelectSeq(M, Matches)
             /\ frame.messages = Snapshot(frame.refs, heap')
             /\ email \in DOMAIN mailboxes'
             /\ mailboxes'[email] = SelectSeq(M, LAMBDA o : ~Matches(o))]_vars

C6_Fifo ==
  [][/\ \A a \in DOMAIN mailboxes' :
          LET old == MailboxOf(mailboxes, a)
              new == mailboxes'[a]
          IN \A i, j \in 1..Len(new) :
               (i < j /\ SeqIncludes(old, new[j]))
               => SeqIncludes(old, new[i]) /\ Pos(old, new[i]) < Pos(old, new[j])
     /\ \A s \in Socks :
          (/\ Answers(s)
           /\ \/ IsAnswerFor(lastFrame'[s], "RECEIVE")
              \/ IsAnswerFor(lastFrame'[s], "RECEIVE_FILTERED")
           /\ lastFrame'[s].status = "OK")
          => LET box == MailboxOf(mailboxes, DataOf(lastFrame'[s]).email)
             IN /\ InOrderOf(lastFrame'[s].refs, box)
                /\ lastFrame'[s].messages = Snapshot(lastFrame'[s].refs, heap')
                /\ IsAnswerFor(lastFrame'[s], "RECEIVE") => lastFrame'[s].refs = box]_vars

\* a RECEIVE_FILTERED has returned two packets of three and left the third queued
C6_Witness ==
  \E s \in Socks :
    /\ IsAnswerFor(lastFrame[s], "RECEIVE_FILTERED")
    /\ lastFrame[s].status = "OK"
    /\ Len(lastFrame[s].refs) = 2
    /\ lastFrame[s].refs[1] < lastFrame[s].refs[2]
    /\ Len(MailboxOf(mailboxes, DataOf(lastFrame[s]).email)) = 1

-----------------------------------------------------------------------------
(* Connections *)

SourceAddresses == {RemoteAddress(s) : s \in Socks}

\* the sockets of a source address that are in a set of sockets
FromSource(ip, set) == {s \in set : RemoteAddress(s) = ip}

\* socket objects are interchangeable: a new connection takes the least socket of its
\* source that is not in use
LeastFree(s) ==
  \A q \in Socks : (q < s /\ RemoteAddress(q) = RemoteAddress(s)) => sock[q] # "closed"

ConnBuffers == {<<Doc(Req("GET_TAG_CATEGORIES", NullValue))>>, <<Fragment>>}

\* connections come and go while one client sends requests that touch no mailbox
NextConn ==
  \/ \E s \in Socks : LeastFree(s) /\ Accept(s) /\ UNCHANGED <<clientVars, senderVars>>
  \/ \E s \in Socks : Close(s) /\ UNCHANGED <<clientVars, senderVars>>
  \/ \E s \in Socks : SocketError(s) /\ UNCHANGED <<clientVars, senderVars>>
  \/ \E s \in Socks : CloseRefused(s) /\ UNCHANGED <<clientVars, senderVars>>
  \/ \E s \in MailSocks, buffer \in ConnBuffers : Data(s, buffer) /\ UNCHANGED <<clientVars, senderVars>>

SpecConn == Init /\ [][NextConn]_vars

\* C7: at most 5 connections of a source address are registered at any time; a connection
\* accepted while the counter of its source would exceed 5 gets the ERROR frame and
\* nothing else, never the welcome frame, is never registered, and is closed by the server.
C7_ConnectionCap ==
  /\ [](/\ \A ip \in SourceAddresses : Cardinality(FromSource(ip, clients)) <= ConnectionCap
        /\ \A s \in Socks :
             sock[s] = "refused"
             => s \notin clients /\ lastFrame[s] = RateLimitFrame /\ sent[s] = 1)
  /\ [][\A s \in Socks :
          /\ (/\ sock[s] = "closed"
              /\ sock'[s] # "closed"
              /\ LimitOf(connectionLimits, RemoteAddress(s)) + 1 > ConnectionCap)
             => /\ sock'[s] = "refused"
                /\ lastFrame'[s] = RateLimitFrame
                /\ lastFrame'[s].status = "ERROR"
                /\ s \notin clients'
          /\ sock[s] = "refused"
             => /\ sock'[s] \in {"refused", "closed"}
                /\ s \notin clients'
                /\ sent'[s] <= sent[s]]_vars

\* five connections of one source are registered and a sixth has been refused
C7_Witness ==
  \E ip \in SourceAddresses :
    /\ Cardinality(FromSource(ip, clients)) = ConnectionCap
    /\ \E s \in FromSource(ip, Socks) : sock[s] = "refused"

\* C8: every increment of a source's counter on accept is matched by one decrement when
\* that connection closes or errors: the counter of a source equals the number of its
\* connections that are open, and a closed socket is not in the registered set.
C8_CounterMatchesOpen ==
  /\ \A ip \in SourceAddresses :
       LimitOf(connectionLimits, ip)
         = Cardinality({s \in FromSource(ip, Socks) : sock[s] # "closed"})
  /\ \A s \in Socks : sock[s] = "closed" => s \notin clients

-----------------------------------------------------------------------------
(* Requests that cannot be dispatched *)

\* the buffer is not exactly one JSON document, or the document names none of the seven
\* actions
Undispatchable(buffer) ==
  \/ JSONparseThrows(buffer)
  \/ ~Has(JSONparse(buffer), "action")
  \/ JSONparse(buffer).action \notin KnownActions

\* frame is the error frame written for an undispatchable buffer
IsGenericError(frame) ==
  /\ DOMAIN frame = {"re", "status", "message"}
  /\ frame.status = "ERROR"
  /\ frame.message \in {InvalidJSON, "Unknown action"}
  /\ Undispatchable(frame.re)

\* C9: a data event whose buffer is not exactly one JSON document (a fragment, two
\* requests in one buffer) or whose action is not one of the seven known actions is
\* answered with one generic ERROR frame; the connection stays open and registered, no
\* mailbox, key store or connection counter changes, and a later request on the
\* connection is served.
C9_UndispatchableRequest ==
  [][\A s \in Socks :
       /\ \A buffer \in Buffers :
            (Undispatchable(buffer) /\ Data(s, buffer))
            => /\ sent'[s] = sent[s] + 1
               /\ IsGenericError(lastFrame'[s])
               /\ lastFrame'[s].re = buffer
               /\ sock'[s] = "open" /\ s \in clients'
               /\ mailboxes' = mailboxes /\ heap' = heap
               /\ publicKeys' = publicKeys /\ pubFiles' = pubFiles /\ privFiles' = privFiles
               /\ connectionLimits' = connectionLimits /\ clients' = clients
               /\ tasks' = tasks
       /\ (/\ IsGenericError(lastFrame[s])
           /\ Data(s, <<Doc(Req("CHECK", [email |-> AddrB]))>>))
          => /\ sent'[s] = sent[s] + 1
             /\ lastFrame'[s].status = "OK"
             /\ lastFrame'[s].totalCount = Len(MailboxOf(mailboxes, AddrB))]_vars

\* two requests that arrived in one buffer have been answered with the generic error frame
\* while a packet is queued
C9_Witness ==
  \E s \in Socks :
    /\ IsGenericError(lastFrame[s])
    /\ Len(lastFrame[s].re) = 2
    /\ sock[s] = "open" /\ s \in clients
    /\ Len(MailboxOf(mailboxes, AddrB)) >= 1

-----------------------------------------------------------------------------
(* Concurrent requests *)

RaceSocks == {1, 2}

RaceBuffers ==
  { <<Doc(SendReq(PktSecure))>>,
    <<Doc(Req("RECEIVE", [email |-> AddrB]))>>,
    <<Doc(Req("RECEIVE_FILTERED", [email |-> AddrB, tagFilters |-> FilterPromotion]))>> }

\* two clients that do not wait for each other: a data event may be served while the
\* handler of another is suspended at an await on file I/O
NextRace ==
  \/ \E s \in RaceSocks : Accept(s) /\ UNCHANGED <<clientVars, senderVars>>
  \/ \E s \in RaceSocks, buffer \in RaceBuffers : Data(s, buffer) /\ UNCHANGED <<clientVars, senderVars>>
  \/ \E r \in 1..MaxReqs : Resume(r) /\ UNCHANGED <<clientVars, senderVars>>

SpecRace == Init /\ [][NextRace]_vars

\* the packets a retrieval frame carries
Refs(frame) ==
  IF Has(frame, "refs") THEN {frame.refs[j] : j \in 1..Len(frame.refs)} \ {Hole} ELSE {}

\* C10: two RECEIVE requests for one address, handled concurrently on two connections, can
\* race so that a packet is delivered twice: both handlers pass the non-empty check before
\* either deletes the mailbox, and the same stored packet is returned in both responses
\* (the state C10_Witness).  In every behaviour, a RECEIVE returns a packet that a response
\* has returned before only as the resumption of a handler that was suspended at an await
\* while the mailbox exists; a suspended RECEIVE that finishes when its mailbox has been
\* deleted is answered with the generic error frame and returns nothing.
C10_DuplicatesOnlyByRace ==
  [][\A s \in Socks :
       /\ (/\ Answers(s)
           /\ IsAnswerFor(lastFrame'[s], "RECEIVE")
           /\ lastFrame'[s].status = "OK"
           /\ \E o \in Refs(lastFrame'[s]) : delivered[o] >= 1)
          => \E r \in DOMAIN tasks :
               /\ r \notin DOMAIN tasks'
               /\ tasks[r].sock = s
               /\ tasks[r].re = lastFrame'[s].re
               /\ tasks[r].data.email \in DOMAIN mailboxes
       /\ \A r \in DOMAIN tasks :
            (/\ r \notin DOMAIN tasks'
             /\ tasks[r].sock = s
             /\ tasks[r].action = "RECEIVE"
             /\ tasks[r].data.email \notin DOMAIN mailboxes)
            => /\ lastFrame'[s] = ErrorFrame(tasks[r].re, InvalidJSON)
               /\ delivered' = delivered
               /\ mailboxes' = mailboxes]_vars

\* the responses to two RECEIVE requests on two connections carry the same stored packet
C10_Witness ==
  \E s1, s2 \in Socks :
    /\ s1 # s2
    /\ IsAnswerFor(lastFrame[s1], "RECEIVE") /\ lastFrame[s1].status = "OK"
    /\ IsAnswerFor(lastFrame[s2], "RECEIVE") /\ lastFrame[s2].status = "OK"
    /\ DataOf(lastFrame[s1]).email = DataOf(lastFrame[s2]).email
    /\ \E o \in Refs(lastFrame[s1]) \cap Refs(lastFrame[s2]) : delivered[o] = 2

\* packet o has been accepted by a SEND (its handler has finished and has pushed it)
Accepted(o, hp, ts) ==
  /\ o \in DOMAIN hp
  /\ hp[o].recipient \notin InheritedKeys
  /\ ~\E r \in DOMAIN ts : ts[r].action = "SEND" /\ ts[r].obj = o

\* packet o is in no mailbox
Unqueued(o, mb) == \A a \in DOMAIN mb : \A j \in 1..Len(mb[a]) : mb[a][j] # o

\* an accepted packet that is in no mailbox and that no retrieval response has carried
Lost(o, hp, mb, dl, ts) == Accepted(o, hp, ts) /\ Unqueued(o, mb) /\ dl[o] = 0

\* C11: concurrent requests for one address (RECEIVE, RECEIVE_FILTERED and SEND on
\* different connections) can race so that delivery is lost: a packet accepted by SEND is
\* in no mailbox and was in no retrieval response (the state C11_Witness).  In every
\* behaviour, a packet becomes lost only in the step of a retrieval handler that resumes
\* from the await of its decrypt step and assigns the packet it holds to
\* mailboxes[email][i], the place where the lost packet was queued in an array that has
\* replaced the one the handler began with.
C11_LostByOverwrite ==
  [][\A o \in DOMAIN heap :
       (~Lost(o, heap, mailboxes, delivered, tasks)
        /\ Lost(o, heap', mailboxes', delivered', tasks'))
       => \E r \in DOMAIN tasks :
            /\ IsRetrieval(tasks[r])
            /\ tasks[r].pc = "await_readFile_priv"
            /\ (r \in DOMAIN tasks' => tasks'[r] # tasks[r])
            /\ tasks[r].obj # o
            /\ tasks[r].data.email \in DOMAIN mailboxes
            /\ tasks[r].i < Len(mailboxes[tasks[r].data.email])
            /\ mailboxes[tasks[r].data.email][tasks[r].i + 1] = o]_vars

\* a SEND has been answered OK for a packet that is now lost
C11_Witness ==
  \E o \in DOMAIN heap :
    /\ Lost(o, heap, mailboxes, delivered, tasks)
    /\ \E s \in Socks :
         /\ IsAnswerTo(lastFrame[s], "SEND") /\ lastFrame[s].status = "OK"
         /\ DataOf(lastFrame[s]).packet.recipient = heap[o].recipient


-----------------------------------------------------------------------------
(* Order of the responses on one connection *)

\* the request whose handler finishes in this step: the one that has just arrived, when its
\* handler runs to its end without an await on file I/O, or the suspended one that resumes
FinishedRequest ==
  IF nreq' # nreq /\ nreq' \notin DOMAIN tasks'
  THEN nreq'
  ELSE CHOOSE r \in DOMAIN tasks : r \notin DOMAIN tasks'

\* C16: requests received on one connection are handled in arrival order: when the
\* response to a request is written to a socket, no request that arrived earlier on that
\* socket is still waiting for its handler to finish (its response, and its effects on the
\* server's state, come first).
C16_ArrivalOrder ==
  [][\A s \in Socks :
       Answers(s) => \A q \in DOMAIN tasks' : tasks'[q].sock = s => q > FinishedRequest]_vars

-----------------------------------------------------------------------------
(* The client.  One MMTPClient, created with usePGP on and the key store   *)
(* of the server as its own, holds the connection of socket ClientSock.    *)
(* A frame the server writes to that socket travels on `wire` and is       *)
(* received later, in the order of the writes; the write of a request and  *)
(* the data event it causes at the server are one step.  A call is one     *)
(* invocation of a request method: `state` and `value` are the state of    *)
(* the promise it returned, `timer` the state of its setTimeout, `req` the *)
(* number of its data event at the server; `answered`, `got`, `overlap`,   *)
(* `replaces` and `stale` are history.                                     *)

ClientSock == 1
MaxCalls == 2   \* invocations of request methods per behaviour

\* Map.prototype.has and Map.prototype.set: a key that is present keeps its place
MapHas(map, key) == \E j \in 1..Len(map) : map[j].action = key
MapSet(map, key, id) ==
  IF MapHas(map, key)
  THEN [j \in 1..Len(map) |-> IF map[j].action = key THEN [action |-> key, id |-> id]
                                                     ELSE map[j]]
  ELSE Append(map, [action |-> key, id |-> id])
\* the call whose tracker the table holds under key
MapGet(map, key) == (CHOOSE j \in 1..Len(map) : map[j].action = key)

\* response.message.includes('MMTP Server Ready')
IncludesServerReady(message) ==
  message \in {"MMTP Server Ready", "MMTP Server Ready (Secure Connection)"}

\* the test of line 65
IsWelcome(response) ==
  /\ response.status = "OK"
  /\ Has(response, "message")
  /\ IncludesServerReady(response.message)

TimedOut == [error |-> "Request timed out"]

\* the frames the step writes to the client's connection, appended to those in flight
Written ==
  IF sent'[ClientSock] = sent[ClientSock] + 1
  THEN Append(wire, [ frame |-> lastFrame'[ClientSock],
                      req |-> IF sock[ClientSock] = "open" THEN FinishedRequest ELSE 0 ])
  ELSE wire

\* connect(), lines 29-60: the call
connect ==
  /\ connectPromise.state = "idle"
  /\ connectPromise' = [connectPromise EXCEPT !.state = "pending"]
  /\ UNCHANGED <<senderVars, serverVars, connected, waitingResponses, calls, wire>>

\* the 'error' handlers of lines 43-46 and 54-57: the server cannot be reached
connectError ==
  /\ connectPromise.state = "pending"
  /\ sock[ClientSock] = "closed"
  /\ connectPromise' = [state |-> "rejected", value |-> [error |-> "ECONNREFUSED"]]
  /\ UNCHANGED <<senderVars, serverVars, connected, waitingResponses, calls, wire>>

\* the server accepts the connection the client has asked for
accept ==
  /\ connectPromise.state = "pending"
  /\ Accept(ClientSock)
  /\ wire' = Written
  /\ UNCHANGED <<senderVars, connected, connectPromise, waitingResponses, calls>>

\* onConnect with a connect() that resolves as soon as the connection is established
onConnect_Resolves ==
  /\ connectPromise.state = "pending"
  /\ sock[ClientSock] = "open"
  /\ ~connected
  /\ connected' = TRUE
  /\ connectPromise' = [ state |-> "resolved",
                         value |-> [connected |-> TRUE, secure |-> FALSE,
                                    features |-> NullValue] ]
  /\ UNCHANGED <<senderVars, serverVars, waitingResponses, calls, wire>>

\* the connect callback of lines 38-42 and 50-54: the connection is established
onConnect ==
  /\ connectPromise.state = "pending"
  /\ sock[ClientSock] = "open"
  /\ ~connected
  /\ connected' = TRUE
  /\ UNCHANGED <<senderVars, serverVars, connectPromise, waitingResponses, calls, wire>>

\* what the request methods send: the tracker key and the buffer written to the socket
ClientRequests ==
  { <<"SEND", <<Doc(SendReq(PktSecure))>> >>,
    <<"SEND", <<Doc(SendReq(PktPlain))>> >>,
    <<"REPLY", <<Doc(SendReq(PktToA))>> >>,
    <<"CHECK", <<Doc(Req("CHECK", [email |-> AddrB]))>> >>,
    <<"RECEIVE", <<Doc(Req("RECEIVE", [email |-> AddrB]))>> >>,
    <<"RECEIVE_FILTERED",
      <<Doc(Req("RECEIVE_FILTERED", [email |-> AddrB, tagFilters |-> FilterPromotion]))>> >>,
    <<"REGISTER_KEY",
      <<Doc(Req("REGISTER_KEY", [email |-> AddrA, publicKey |-> ArmoredPublic("kA")]))>> >>,
    <<"REQUEST_PUBLIC_KEY", <<Doc(Req("REQUEST_PUBLIC_KEY", [email |-> AddrB]))>> >> }

\* the tests a request method makes before it creates its promise, and what
\* createMessagePacket needs to build the packet
CanIssue(key, buffer) ==
  LET data == JSONparse(buffer).data IN
  /\ connected
  /\ key \in {"CHECK", "RECEIVE", "RECEIVE_FILTERED"} => validateEmailFormat(data.email)
  /\ key = "REGISTER_KEY" => pubFiles[data.email] = data.publicKey
  /\ key \in {"SEND", "REPLY"} =>
       /\ validateEmailFormat(data.packet.sender)
       /\ validateEmailFormat(data.packet.recipient)
       /\ data.packet.meta.signed => privFiles[data.packet.sender] # NoFile
       /\ data.packet.meta.encrypted => pubFiles[data.packet.recipient] # NoFile

\* a request the response to which has not yet reached the client
InFlight(call) == ~call.answered

NewCall(key, buffer, id) ==
  [ action |-> key, re |-> buffer, req |-> nreq + 1,
    state |-> "pending", value |-> NoFrame, timer |-> "armed", written |-> 1,
    answered |-> FALSE, got |-> 0,
    overlap |-> \E j \in DOMAIN calls :
                  InFlight(calls[j]) /\ JSONparse(calls[j].re).action = JSONparse(buffer).action,
    replaces |-> IF /\ MapHas(waitingResponses, key)
                    /\ InFlight(calls[waitingResponses[MapGet(waitingResponses, key)].id])
                 THEN waitingResponses[MapGet(waitingResponses, key)].id ELSE 0,
    stale |-> \E j \in 1..Len(waitingResponses) :
                calls[waitingResponses[j].id].timer = "fired" ]

\* request with a registration that clears the timer of the tracker it replaces
request_ClearsReplaced(key, buffer) ==
  /\ CanIssue(key, buffer)
  /\ Len(calls) < MaxCalls
  /\ Data(ClientSock, buffer)
  /\ calls' = Append([j \in DOMAIN calls |->
                        IF /\ MapHas(waitingResponses, key)
                           /\ waitingResponses[MapGet(waitingResponses, key)].id = j
                           /\ calls[j].timer = "armed"
                        THEN [calls[j] EXCEPT !.timer = "cleared"]
                        ELSE calls[j]],
                     NewCall(key, buffer, Len(calls) + 1))
  /\ waitingResponses' = MapSet(waitingResponses, key, Len(calls) + 1)
  /\ wire' = Written
  /\ UNCHANGED <<senderVars, connected, connectPromise>>

\* the promise executor of sendMail (lines 109-122), replyToMail (138-151), checkMail
\* (165-176), receiveMail (190-201), receiveMailByTags (216-227), registerPublicKey
\* (260-271) and requestPublicKey (285-296): write, setTimeout, waitingResponses.set
request(key, buffer) ==
  /\ CanIssue(key, buffer)
  /\ Len(calls) < MaxCalls
  /\ Data(ClientSock, buffer)
  /\ calls' = Append(calls, NewCall(key, buffer, Len(calls) + 1))
  /\ waitingResponses' = MapSet(waitingResponses, key, Len(calls) + 1)
  /\ wire' = Written
  /\ UNCHANGED <<senderVars, connected, connectPromise>>

\* the server's handler resumes; the frame it writes goes on the wire
resume(r) ==
  /\ Resume(r)
  /\ wire' = Written
  /\ UNCHANGED <<senderVars, connected, connectPromise, waitingResponses, calls>>

\* onTimeout with a callback that also deletes the tracker
onTimeout_Deletes(id) ==
  /\ id \in DOMAIN calls
  /\ calls[id].timer = "armed"
  /\ calls' = [calls EXCEPT ![id] =
                 IF @.state = "pending"
                 THEN [@ EXCEPT !.timer = "fired", !.state = "rejected", !.value = TimedOut]
                 ELSE [@ EXCEPT !.timer = "fired"]]
  /\ waitingResponses' = SelectSeq(waitingResponses, LAMBDA e : e.id # id)
  /\ UNCHANGED <<senderVars, serverVars, connected, connectPromise, wire>>

\* the setTimeout callback of a request method (lines 112-114 and the like)
onTimeout(id) ==
  /\ id \in DOMAIN calls
  /\ calls[id].timer = "armed"
  /\ calls' = [calls EXCEPT ![id] =
                 IF @.state = "pending"
                 THEN [@ EXCEPT !.timer = "fired", !.state = "rejected", !.value = TimedOut]
                 ELSE [@ EXCEPT !.timer = "fired"]]
  /\ UNCHANGED <<senderVars, serverVars, connected, connectPromise, waitingResponses, wire>>

\* the messages of a RECEIVE_FILTERED response, filtered once more (lines 310-315)
Refiltered(response) ==
  IF Has(response, "tagFilters") /\ DOMAIN response.tagFilters # {}
  THEN [response EXCEPT !.messages =
          SelectSeq(response.messages,
                    LAMBDA message : MatchesTagFilters(message, response.tagFilters))]
  ELSE response

\* the filter of lines 311-314 throws: handleResponse ends there, after the tracker was
\* deleted and its timer cleared, and the 'data' handler catches the exception
RefilterThrows(response) ==
  /\ Has(response, "tagFilters")
  /\ DOMAIN response.tagFilters # {}
  /\ \E j \in 1..Len(response.messages) :
       \/ response.messages[j] = NullValue   \* message.meta of null
       \/ MatchOutcome(response.messages[j], response.tagFilters) = "throw"

\* handleResponse, lines 299-320, for the tracker under `action`: what becomes of its call
Consume(call, action, response, req) ==
  LET cleared == [call EXCEPT !.got = req,
                              !.timer = IF @ = "armed" THEN "cleared" ELSE @]
  IN IF call.state # "pending"
     THEN cleared                             \* resolve and reject have no effect
     ELSE IF response.status = "ERROR"
     THEN [cleared EXCEPT !.state = "rejected", !.value = [error |-> response.message]]
     ELSE IF action = "REQUEST_PUBLIC_KEY" /\ Has(response, "publicKey")
     THEN [cleared EXCEPT !.state = "importing", !.value = response]
     ELSE IF action = "RECEIVE_FILTERED" /\ Has(response, "messages")
     THEN IF RefilterThrows(response)
          THEN cleared
          ELSE [cleared EXCEPT !.state = "resolved", !.value = Refiltered(response)]
     ELSE [cleared EXCEPT !.state = "resolved", !.value = response]

\* handleResponse with a loop that takes the tracker inserted last
handleResponse_Newest(map, cs, response, req) ==
  IF Len(map) = 0
  THEN [map |-> map, calls |-> cs]
  ELSE [ map |-> SubSeq(map, 1, Len(map) - 1),
         calls |-> [cs EXCEPT ![map[Len(map)].id] =
                      Consume(@, map[Len(map)].action, response, req)] ]

\* handleResponse, lines 298-323: the first tracker of the table takes the response
handleResponse(map, cs, response, req) ==
  IF Len(map) = 0
  THEN [map |-> map, calls |-> cs]
  ELSE [ map |-> Tail(map),
         calls |-> [cs EXCEPT ![map[1].id] = Consume(@, map[1].action, response, req)] ]

\* the 'data' handler of lines 62-77
onData ==
  LET response == Head(wire).frame
      req == Head(wire).req
      noted == [j \in DOMAIN calls |->
                  IF calls[j].req = req THEN [calls[j] EXCEPT !.answered = TRUE]
                                        ELSE calls[j]]
  IN /\ connected
     /\ wire # << >>
     /\ wire' = Tail(wire)
     /\ IF IsWelcome(response)
        THEN /\ connectPromise' =
                  IF connectPromise.state = "pending"
                  THEN [ state |-> "resolved",
                         value |-> [ connected |-> TRUE, secure |-> FALSE,
                                     features |-> IF Has(response, "features")
                                                  THEN response.features ELSE NullValue ] ]
                  ELSE connectPromise
             /\ UNCHANGED <<waitingResponses, calls>>
        ELSE /\ waitingResponses' = handleResponse(waitingResponses, noted, response, req).map
             /\ calls' = handleResponse(waitingResponses, noted, response, req).calls
             /\ UNCHANGED connectPromise
     /\ UNCHANGED <<senderVars, serverVars, connected>>

\* importPublicKey(response.email, response.publicKey) settles (line 306-308); the key
\* file it writes is the file the server has read
importDone(id) ==
  /\ id \in DOMAIN calls
  /\ calls[id].state = "importing"
  /\ calls' = [calls EXCEPT ![id].state =
                 IF readKeyThrows(calls[id].value.publicKey) THEN "rejected" ELSE "resolved"]
  /\ UNCHANGED <<senderVars, serverVars, connected, connectPromise, waitingResponses, wire>>

NextClient ==
  \/ connect
  \/ connectError
  \/ accept
  \/ onConnect
  \/ \E q \in ClientRequests : request(q[1], q[2])
  \/ \E r \in 1..MaxReqs : resume(r)
  \/ onData
  \/ \E id \in 1..MaxCalls : onTimeout(id)
  \/ \E id \in 1..MaxCalls : importDone(id)

SpecClient == Init /\ [][NextClient]_vars

\* the event loop runs the callbacks that are due: a timer that is armed fires, a file
\* operation that was started completes
Due == \E id \in 1..MaxCalls : onTimeout(id) \/ importDone(id)

SpecClientLive == SpecClient /\ WF_vars(Due)

-----------------------------------------------------------------------------
(* Properties of the client *)

\* no call was made while a request of the same action was in flight
NoOverlap == \A id \in DOMAIN calls : ~calls[id].overlap
\* no timer of a request has fired
NoTimeout == \A id \in DOMAIN calls : calls[id].timer # "fired"

\* C12: if the client never has two requests of the same action in flight at once and no
\* request times out, then every response settles the promise of the request that
\* elicited it, also when requests of different actions are in flight together: once the
\* response to a request has reached the client, the tracker of that request is the one
\* that has consumed it.
C12_ResponseToItsRequest ==
  (NoOverlap /\ NoTimeout)
  => \A id \in DOMAIN calls : calls[id].answered => calls[id].got = calls[id].req

\* the client receives a frame that is not a welcome frame
Receives == wire # << >> /\ wire' = Tail(wire) /\ ~IsWelcome(Head(wire).frame)

\* the first tracker of the table belongs to a request that has timed out
StaleFirst == waitingResponses # << >> /\ calls[waitingResponses[1].id].timer = "fired"

C14_SecondCallerSettled ==
  \A j \in DOMAIN calls :
    calls[j].replaces # 0
    => LET first == calls[calls[j].replaces] IN
       /\ first.answered => calls[j].got = first.req
       /\ first.got = 0
       /\ first.state # "pending" => first.value = TimedOut

Settled(call) == call.state \in {"resolved", "rejected"}

\* C15: every request promise the client returns eventually settles, if timers fire: it is
\* resolved or rejected by the response its tracker consumes, or else rejected with
\* 'Request timed out' when its timer fires; the request is written to the socket once
\* (every data event at the server is the one write of a new call).  A settled promise
\* stays settled, so that every promise settles exactly when, again and again, all the
\* promises returned so far are settled.
C15_RequestsSettle ==
  /\ [](\A id \in DOMAIN calls :
          /\ calls[id].written = 1
          /\ calls[id].state = "resolved" => calls[id].got # 0 /\ calls[id].timer = "cleared"
          /\ calls[id].state = "rejected"
             => \/ calls[id].value = TimedOut /\ calls[id].timer = "fired"
                \/ calls[id].got # 0 /\ calls[id].timer = "cleared")
  /\ [][/\ nreq' # nreq => Len(calls') = Len(calls) + 1 /\ calls'[Len(calls')].req = nreq'
        /\ \A id \in DOMAIN calls : calls'[id].written = calls[id].written]_vars
  /\ []<>(\A id \in DOMAIN calls : Settled(calls[id]))

\* a promise resolved by a response, and a promise whose tracker was replaced and that its
\* timer has rejected
C15_Witness ==
  \E i, j \in DOMAIN calls :
    /\ calls[j].replaces = i
    /\ calls[i].state = "rejected" /\ calls[i].value = TimedOut /\ calls[i].got = 0
    /\ calls[j].state = "resolved"

\* C17: connect() resolves only after a welcome frame (status OK, a message containing
\* 'MMTP Server Ready') has been received on the socket: the promise is resolved in the
\* step in which the client, its connection established, receives that frame, never by
\* the establishment of the connection alone, and the value it is resolved with carries
\* the tls and pgp feature flags of that frame, which are the server's.
C17_ConnectAfterWelcome ==
  [][(connectPromise.state # "resolved" /\ connectPromise'.state = "resolved")
     => /\ connected
        /\ wire # << >>
        /\ IsWelcome(Head(wire).frame)
        /\ wire' = Tail(wire)
        /\ connectPromise'.value.features = Head(wire).frame.features
        /\ connectPromise'.value.features = [tls |-> TRUE, pgp |-> usePGP]]_vars

\* connect() has resolved with the flags of a server that has PGP on
C17_Witness ==
  /\ connectPromise.state = "resolved"
  /\ connectPromise.value.connected
  /\ connectPromise.value.features.pgp
  /\ usePGP

-----------------------------------------------------------------------------
(* Tags.  A sender builds its packets with createMessagePacket, which      *)
(* passes the tags it is given through processTags; a reader retrieves or  *)
(* counts by tag filters.  A JavaScript value that may be an array or an   *)
(* object is kept as [array |-> list] when it is an array.                 *)

MaxTagged == 2   \* packets built by createMessagePacket per behaviour

Undefined == [undefined |-> TRUE]
List(list) == [array |-> list]
IsArray(value) == Has(value, "array")

\* MMTPProtocol.processTags
processTags(tags) ==
  IF Has(tags, "undefined")
  THEN NoTags
  ELSE IF IsArray(tags)
  THEN IF Len(tags.array) = 0 THEN NoTags ELSE [custom |-> tags.array]
  ELSE IF DOMAIN tags = {}
  THEN NoTags
  ELSE [ category \in {c \in DOMAIN tags :
                         c \in DOMAIN TagCategories \/ c \in InheritedNames \/ c = "custom"} |->
           IF category # "custom" /\ category \in DOMAIN TagCategories
           THEN SelectSeq(tags[category], LAMBDA tag : SeqIncludes(TagCategories[category], tag))
           ELSE tags[category] ]

\* crypto.randomBytes(16): an identifier no earlier packet has
FreshIds == <<"t1", "t2", "t3", "t4", "t5", "t6">>

\* MMTPProtocol.getPublicKey on the instance p with the key files pub: the key it returns
\* (found), the exception of readKey (throws) and the cache it leaves
getPublicKey(p, pub, email) ==
  IF ~p.usePGP
  THEN [found |-> FALSE, throws |-> FALSE, publicKeys |-> p.publicKeys]
  ELSE IF email \in DOMAIN p.publicKeys
  THEN [found |-> TRUE, throws |-> FALSE, key |-> p.publicKeys[email],
        publicKeys |-> p.publicKeys]
  ELSE IF pub[email] # NoFile
  THEN IF readKeyThrows(pub[email])
       THEN [found |-> FALSE, throws |-> TRUE, publicKeys |-> p.publicKeys]
       ELSE [found |-> TRUE, throws |-> FALSE, key |-> readKey(pub[email]),
             publicKeys |-> (email :> readKey(pub[email])) @@ p.publicKeys]
  ELSE [found |-> FALSE, throws |-> FALSE, publicKeys |-> p.publicKeys]

\* createMessagePacket, lines 64-79, on the packet as it is after the signing step
encryptStep(p, pub, to, packet, options) ==
  LET got == getPublicKey(p, pub, to) IN
  IF ~(options.encrypt /\ p.usePGP)
  THEN [packet |-> packet, publicKeys |-> p.publicKeys]
  ELSE IF got.found
  THEN [packet |-> [packet EXCEPT
                      !.content = [encrypted |-> pgpEncrypt(JSONstringify(packet.content),
                                                            got.key)],
                      !.meta.encrypted = TRUE],
        publicKeys |-> got.publicKeys]
  ELSE [packet |-> packet, publicKeys |-> got.publicKeys]

\* createMessagePacket on the instance p with the key files pub and priv; messageId and
\* timestamp are what crypto.randomBytes and Date.now yield.  The result holds the packet
\* returned or the exception thrown, and the key cache the call leaves.
createMessagePacket(p, pub, priv, from, to, subject, body, type, options, messageId, timestamp) ==
  LET messageContent == [subject |-> subject, body |-> body]
      packet ==
        [ meta |-> [ type |-> type, messageId |-> messageId, timestamp |-> timestamp,
                     hashcashToken |-> generateHashCash(p.difficulty, from, to, timestamp),
                     encrypted |-> FALSE, signed |-> FALSE,
                     tags |-> processTags(IF Has(options.tags, "undefined")
                                          THEN List(<< >>) ELSE options.tags) ],
          sender |-> from,
          recipient |-> to,
          content |-> messageContent,
          verification |-> [messageHash |-> generateSHA256(JSONstringify(messageContent))] ]
      signing == options.sign /\ p.usePGP /\ priv[from] # NoFile
  IN IF ~validateEmailFormat(from) \/ ~validateEmailFormat(to)
     THEN [thrown |-> "Invalid email format. Must be (name)%(domain)",
           publicKeys |-> p.publicKeys]
     ELSE IF signing /\ readPrivateKeyThrows(priv[from])
     THEN [thrown |-> "Misformed armored text", publicKeys |-> p.publicKeys]
     ELSE IF signing /\ IsLocked(priv[from])
     THEN [thrown |-> "Error signing message: Signing key is not decrypted.",
           publicKeys |-> p.publicKeys]
     ELSE encryptStep(p, pub, to,
                      IF signing THEN Signed(packet, readPrivateKey(priv[from])) ELSE packet,
                      options)

\* createReplyPacket without lines 83-85
createReplyPacket_OwnTagsOnly(p, pub, priv, originalPacket, from, body, options, messageId, timestamp) ==
  createMessagePacket(
    p, pub, priv, from, originalPacket.sender,
    "RE: " \o (IF originalPacket.meta.encrypted
               THEN "Encrypted Message" ELSE originalPacket.content.subject),
    body, "REPLY", options, messageId, timestamp)

\* createReplyPacket, lines 82-94
createReplyPacket(p, pub, priv, originalPacket, from, body, options, messageId, timestamp) ==
  createMessagePacket(
    p, pub, priv, from, originalPacket.sender,
    "RE: " \o (IF originalPacket.meta.encrypted
               THEN "Encrypted Message" ELSE originalPacket.content.subject),
    body, "REPLY",
    IF Has(options.tags, "undefined") /\ Has(originalPacket.meta, "tags")
    THEN [options EXCEPT !.tags = originalPacket.meta.tags]
    ELSE options,
    messageId, timestamp)

\* the protocol instance of a client constructed without PGP and with the server's
\* difficulty
PlainProtocol == [difficulty |-> Difficulty, usePGP |-> FALSE, publicKeys |-> << >>]

\* what senders pass as options.tags
TagInputs ==
  { Undefined, List(<< >>), NoTags, List(<<"sale">>),
    [category |-> <<"promotion", "bogus">>],
    [priority |-> <<"high">>, custom |-> <<"high", "sale">>],
    [category |-> <<"coupon">>, priority |-> <<"urgent", "high">>],
    [mood |-> <<"happy">>],
    [constructor |-> <<"x">>] }

\* what readers pass as tagFilters
TagFilterInputs ==
  { FilterPromotion, FilterHigh,
    [category |-> <<"promotion">>, priority |-> <<"high">>],
    [category |-> << >>],
    [custom |-> <<"sale">>],
    [constructor |-> <<"x">>] }

\* a sender builds a packet with these tags and submits it
createAndSend(tags) ==
  /\ Len(heap) < MaxTagged
  /\ Data(ClientSock,
          <<Doc(SendReq(createMessagePacket(
                          PlainProtocol, pubFiles, privFiles, AddrA, AddrB, "Hi", "Yo", "SEND",
                          [sign |-> FALSE, encrypt |-> FALSE, tags |-> tags],
                          FreshIds[Len(heap) + 1], 1076).packet))>>)
  /\ UNCHANGED <<clientVars, senderVars>>

\* a reader retrieves or counts with a filter
readByTags(action, tagFilters) ==
  /\ Data(ClientSock, <<Doc(Req(action, [email |-> AddrB, tagFilters |-> tagFilters]))>>)
  /\ UNCHANGED <<clientVars, senderVars>>

NextTags ==
  \/ Accept(ClientSock) /\ UNCHANGED <<clientVars, senderVars>>
  \/ \E tags \in TagInputs : createAndSend(tags)
  \/ \E action \in {"RECEIVE_FILTERED", "CHECK"}, tagFilters \in TagFilterInputs :
       readByTags(action, tagFilters)

SpecTags == Init /\ [][NextTags]_vars

\* the values of a list
Values(list) == {list[j] : j \in 1..Len(list)}

\* what C18 says a message matches: every category of the filter has a value in common
\* with the message's tags of that category
Intersects(message, tagFilters) ==
  \A category \in DOMAIN tagFilters :
    Values(TagsOf(message, category)) \cap Values(tagFilters[category]) # {}

\* C18: filterMessagesByTags(messages, filters) with a non-empty filters mapping returns,
\* in the original order, exactly the messages that for every category of filters have a
\* tag of that category in common with the filter's list (a message with no tags and a
\* category with an empty list match nothing): a RECEIVE_FILTERED with such a filter on a
\* mailbox that holds messages is answered with exactly those messages, in order, and a
\* CHECK with their number.
C18_FilterIntersects ==
  [][\A s \in Socks :
       (/\ Answers(s)
        /\ HasFilter(lastFrame'[s])
        /\ Len(MailboxOf(mailboxes, DataOf(lastFrame'[s]).email)) > 0)
       => LET frame == lastFrame'[s]
              box == mailboxes[DataOf(frame).email]
              matching == SelectSeq(box, LAMBDA o :
                            Intersects(heap[o], DataOf(frame).tagFilters))
          IN /\ frame.status = "OK"
             /\ IsAnswerFor(frame, "RECEIVE_FILTERED") => frame.refs = matching
             /\ IsAnswerFor(frame, "CHECK") => frame.count = Len(matching)]_vars

ClosedCategories == {"priority", "category", "status"}

\* what C19 says processTags returns
ProcessedAsStated(tags) ==
  IF Has(tags, "undefined") THEN NoTags
  ELSE IF IsArray(tags) THEN (IF Len(tags.array) = 0 THEN NoTags ELSE [custom |-> tags.array])
  ELSE [ category \in DOMAIN tags \cap (ClosedCategories \cup {"custom"}) |->
           IF category = "custom"
           THEN tags[category]
           ELSE SelectSeq(tags[category],
                          LAMBDA tag : tag \in Values(TagCategories[category])) ]

\* C19: processTags returns the empty mapping for an absent or empty input, {custom: input}
\* for a non-empty list, and for a mapping the mapping that keeps only the categories
\* priority, category, status and custom, each closed category restricted to its
\* vocabulary in the input's order and custom unchanged; hence every packet that
\* createMessagePacket builds carries only vocabulary values under the closed categories.
C19_ProcessTags ==
  [][\A tags \in TagInputs :
       createAndSend(tags)
       => LET built == heap'[Len(heap')].meta.tags IN
          /\ built = ProcessedAsStated(tags)
          /\ \A category \in DOMAIN built \cap ClosedCategories :
               Values(built[category]) \subseteq Values(TagCategories[category])]_vars

-----------------------------------------------------------------------------
(* Packets marked encrypted.  A sender may put anything under content and  *)
(* verification.messageHash of a packet whose meta.encrypted is true.      *)

\* the ciphertext replaced by another message's ciphertext
SealedMutated ==
  [PktSecure EXCEPT !.content = [encrypted |-> pgpEncrypt(JSONstringify(ContentHiNo), "kB")]]
\* the ciphertext replaced by text that is no OpenPGP message
SealedGarbage == [PktSecure EXCEPT !.content = [encrypted |-> "garbage"]]
\* the hash of another content
SealedWrongHash ==
  [PktSecure EXCEPT !.verification.messageHash = generateSHA256(JSONstringify(ContentHiNo))]
\* the tampered plaintext packet with nothing but the flag set
SealedFlagOnly == [PktTampered EXCEPT !.meta.encrypted = TRUE]
SealedNoWork == [PktSecure EXCEPT !.meta.hashcashToken = TokenWeak]
SealedToProto == [PktSecure EXCEPT !.recipient = AddrProto]

SealedPackets ==
  { PktSecure, SealedMutated, SealedGarbage, SealedWrongHash, SealedFlagOnly, SealedNoWork,
    SealedToProto, PktTampered, PktPlain }

\* a sender submits a packet and waits for the response
sendSealed(packet) ==
  /\ DOMAIN tasks = {}
  /\ Data(ClientSock, <<Doc(SendReq(packet))>>)
  /\ UNCHANGED <<clientVars, senderVars>>

NextSealed ==
  \/ Accept(ClientSock) /\ UNCHANGED <<clientVars, senderVars>>
  \/ \E packet \in SealedPackets : sendSealed(packet)
  \/ \E r \in 1..MaxReqs : Resume(r) /\ UNCHANGED <<clientVars, senderVars>>

SpecSealed == Init /\ [][NextSealed]_vars

\* C20: verifyMessageIntegrity is true for every packet whose meta.encrypted is true,
\* whatever its content and messageHash, so whether a SEND of such a packet is accepted
\* depends only on the HashCash check: it is answered OK exactly if the token verifies.
C20_SealedSend ==
  [][\A s \in Socks :
       (/\ Answers(s)
        /\ IsAnswerTo(lastFrame'[s], "SEND")
        /\ Has(DataOf(lastFrame'[s]), "packet")
        /\ DataOf(lastFrame'[s]).packet.meta.encrypted)
       => LET packet == DataOf(lastFrame'[s]).packet IN
          /\ verifyMessageIntegrity(packet)
          /\ lastFrame'[s].status = "OK" <=> verifyHashCash(packet)]_vars

-----------------------------------------------------------------------------
(* A sender.  An MMTPClient constructs its MMTPProtocol instance, may      *)
(* generate key pairs into the key store, builds one packet with           *)
(* createMessagePacket and may build a reply to it with createReplyPacket. *)
(* A call is modelled as one step: each of the two key files it awaits is  *)
(* read once.                                                              *)

\* sender, recipient and Date.now() of the packets built
Resources ==
  { <<AddrA, AddrB, 1076>>, <<AddrA, AddrB, 1215>>, <<AddrB, AddrA, 1498>>,
    <<AddrB, AddrA, 1315>>, <<AddrA, AddrA, 2154>>,
    <<AddrBad, AddrB, 1076>>, <<AddrA, AddrBad, 1076>> }

\* the difficulties senders are constructed with
Difficulties == {0, 1, Difficulty}

\* the options of sendMail
MessageOptions ==
  [sign : BOOLEAN, encrypt : BOOLEAN, tags : {Undefined, TagsPromotion}]
\* the options of replyToMail
ReplyOptions ==
  [sign : {FALSE}, encrypt : {FALSE}, tags : {Undefined, NoTags, TagsHigh}]
  \cup {[sign |-> TRUE, encrypt |-> TRUE, tags |-> Undefined]}

\* the key pair generateKeyPair creates for an address
KeyOf(email) == IF email = AddrA THEN "kA" ELSE "kB"

\* new MMTPProtocol(difficulty, {usePGP}), lines 6-21
newProtocol(difficulty, pgp) ==
  /\ protocol = NoFrame
  /\ protocol' = [difficulty |-> difficulty, usePGP |-> pgp, publicKeys |-> << >>]
  /\ UNCHANGED <<serverVars, clientVars, returned>>

\* generateKeyPair(email, name, passphrase), lines 232-266
generateKeyPair(email, passphrase) ==
  /\ protocol # NoFrame
  /\ returned = NoFrame
  /\ protocol.usePGP
  /\ validateEmailFormat(email)
  /\ pubFiles' = [pubFiles EXCEPT ![email] = ArmoredPublic(KeyOf(email))]
  /\ privFiles' = [privFiles EXCEPT ![email] = IF passphrase = ""
                                                THEN ArmoredPrivate(KeyOf(email))
                                                ELSE LockedPrivate(KeyOf(email))]
  /\ protocol' = [protocol EXCEPT !.publicKeys = (email :> KeyOf(email)) @@ @]
  /\ UNCHANGED <<usePGP, mailboxes, heap, clients, connectionLimits, sock, lastFrame, sent,
                 tasks, nreq, publicKeys, delivered, clientVars, returned>>

\* a call of createMessagePacket(from, to, subject, body, 'SEND', options)
callCreate(resource, subject, body, options) ==
  LET result == createMessagePacket(protocol, pubFiles, privFiles, resource[1], resource[2],
                                    subject, body, "SEND", options, FreshIds[1], resource[3])
  IN /\ protocol # NoFrame
     /\ returned = NoFrame
     /\ returned' = [ call |-> "createMessagePacket", from |-> resource[1],
                      to |-> resource[2], subject |-> subject, body |-> body,
                      options |-> options, timestamp |-> resource[3], result |-> result ]
     /\ protocol' = [protocol EXCEPT !.publicKeys = result.publicKeys]
     /\ UNCHANGED <<serverVars, clientVars>>

\* a call of createReplyPacket(original, from, body, options) by the recipient of the
\* packet built before
callReply(body, options) ==
  /\ protocol # NoFrame
  /\ returned # NoFrame
  /\ returned.call = "createMessagePacket"
  /\ Has(returned.result, "packet")
  /\ LET original == returned.result.packet
         from == original.recipient
         timestamp == CHOOSE t \in {resource[3] : resource \in Resources} :
                        <<from, original.sender, t>> \in Resources
         result == createReplyPacket(protocol, pubFiles, privFiles, original, from, body,
                                     options, FreshIds[2], timestamp)
     IN /\ returned' = [ call |-> "createReplyPacket", original |-> original, from |-> from,
                         body |-> body, options |-> options, timestamp |-> timestamp,
                         result |-> result ]
        /\ protocol' = [protocol EXCEPT !.publicKeys = result.publicKeys]
  /\ UNCHANGED <<serverVars, clientVars>>

\* a call of generateHashCash(sender, recipient, timestamp)
callGenerateHashCash(resource) ==
  /\ protocol # NoFrame
  /\ returned = NoFrame
  /\ returned' = [ call |-> "generateHashCash", from |-> resource[1], to |-> resource[2],
                   timestamp |-> resource[3],
                   result |-> generateHashCash(protocol.difficulty, resource[1], resource[2],
                                               resource[3]) ]
  /\ UNCHANGED <<serverVars, clientVars, protocol>>

NextSender ==
  \/ \E difficulty \in Difficulties, pgp \in BOOLEAN : newProtocol(difficulty, pgp)
  \/ \E email \in {AddrA, AddrB}, passphrase \in {"", "secret"} :
       generateKeyPair(email, passphrase)
  \/ /\ returned = NoFrame
     /\ \E resource \in Resources, subject \in Subjects, body \in Bodies,
           options \in MessageOptions : callCreate(resource, subject, body, options)
  \/ /\ returned # NoFrame
     /\ \E options \in ReplyOptions : callReply("Yo", options)
  \/ /\ returned = NoFrame
     /\ \E resource \in Resources : validateEmailFormat(resource[1])
          /\ validateEmailFormat(resource[2]) /\ callGenerateHashCash(resource)

SpecSender == Init /\ [][NextSender]_vars

\* the last call returned a packet
Built == returned # NoFrame /\ returned.call \in {"createMessagePacket", "createReplyPacket"}
           /\ Has(returned.result, "packet")

\* C21: the unencrypted packet createMessagePacket returns for a subject and a body
\* satisfies verifyMessageIntegrity, and does not once its content is replaced by a
\* different {subject, body}; messageHash is the hash of the plaintext {subject, body},
\* whether the packet returned is encrypted or not.
C21_IntegrityOfBuilt ==
  (Built /\ returned.call = "createMessagePacket")
  => LET packet == returned.result.packet
         plain == [subject |-> returned.subject, body |-> returned.body]
     IN /\ packet.verification.messageHash = generateSHA256(JSONstringify(plain))
        /\ ~packet.meta.encrypted
           => /\ packet.content = plain
              /\ verifyMessageIntegrity(packet)
              /\ \A content \in Contents \ {plain} :
                   ~verifyMessageIntegrity([packet EXCEPT !.content = content])

\* a packet has been returned encrypted
C21_Witness ==
  /\ Built
  /\ returned.call = "createMessagePacket"
  /\ returned.result.packet.meta.encrypted
  /\ returned.subject = ""

\* C22: generateHashCash(sender, recipient, timestamp) returns the token string and the
\* counter of the least counter 0, 1, 2, ... whose token hash begins with `difficulty`
\* characters '0', and verifyHashCash at the same difficulty accepts a packet that carries
\* the token.
C22_LeastCounter ==
  /\ (returned # NoFrame /\ returned.call = "generateHashCash")
     => LET found == returned.result
            TokenAt(counter) == TokenString(protocol.difficulty, returned.from, returned.to,
                                            returned.timestamp, counter)
        IN /\ found.counter \in Nat
           /\ found.token = TokenAt(found.counter)
           /\ StartsWithZeros(generateSHA256(found.token), protocol.difficulty)
           /\ \A counter \in 0..(found.counter - 1) :
                ~StartsWithZeros(generateSHA256(TokenAt(counter)), protocol.difficulty)
           /\ verifyHashCashAt(protocol.difficulty, [meta |-> [hashcashToken |-> found]])
  /\ Built
     => /\ verifyHashCashAt(protocol.difficulty, returned.result.packet)
        /\ \A counter \in 0..(returned.result.packet.meta.hashcashToken.counter - 1) :
             ~StartsWithZeros(
                generateSHA256(TokenString(protocol.difficulty,
                                           returned.result.packet.sender,
                                           returned.result.packet.recipient,
                                           returned.result.packet.meta.timestamp, counter)),
                protocol.difficulty)

\* a search has passed over counters whose tokens do not meet the difficulty
C22_Witness ==
  /\ returned # NoFrame
  /\ returned.call = "generateHashCash"
  /\ returned.result.counter >= 2
  /\ protocol.difficulty = 1

-----------------------------------------------------------------------------
(* HashCash tokens and the checks of processPacket.  Senders submit        *)
(* packets whose token was made for other fields, at another difficulty,   *)
(* or is stored with another counter, and packets that fail one check or   *)
(* both.                                                                   *)

\* the token made for a packet from AddrB to AddrA at time 1315
TokenForeign == generateHashCash(Difficulty, AddrB, AddrA, 1315)
\* the token a sender constructed with difficulty 1 makes for its packet
TokenEasy == generateHashCash(1, AddrB, AddrA, 1498)

PktForeign == [PktPlain EXCEPT !.meta.hashcashToken = TokenForeign]
PktCounter == [PktPlain EXCEPT !.meta.hashcashToken.counter = 7]
PktEasy == [PktPlain EXCEPT !.meta.hashcashToken = TokenEasy, !.sender = AddrB,
                            !.recipient = AddrA, !.meta.timestamp = 1498]
PktOther == [PktSecure EXCEPT !.sender = AddrB, !.meta.timestamp = 5,
                              !.meta.hashcashToken.counter = 0]
PktEasyOther == [PktPromo EXCEPT !.meta.hashcashToken = TokenEasy]
\* signed packets that fail the HashCash check, the integrity check, and both
PktSignedNoWork == [Signed(PktPlain, "kA") EXCEPT !.meta.hashcashToken = TokenWeak]
PktSignedTampered == [Signed(PktPlain, "kA") EXCEPT !.content = ContentHiNo]
PktBoth == [PktSignedTampered EXCEPT !.meta.hashcashToken = TokenWeak]

TokenPackets ==
  { PktPlain, PktForeign, PktCounter, PktEasy, PktOther, PktEasyOther, PktSignedNoWork,
    PktSignedTampered, PktBoth }

\* a sender submits a packet and waits for the response
sendToken(packet) ==
  /\ DOMAIN tasks = {}
  /\ Data(ClientSock, <<Doc(SendReq(packet))>>)
  /\ UNCHANGED <<clientVars, senderVars>>

NextTokens ==
  \/ Accept(ClientSock) /\ UNCHANGED <<clientVars, senderVars>>
  \/ \E packet \in TokenPackets : sendToken(packet)
  \/ \E r \in 1..MaxReqs : Resume(r) /\ UNCHANGED <<clientVars, senderVars>>

SpecTokens == Init /\ [][NextTokens]_vars

HashCashError == "HashCash verification failed - potential spam"
IntegrityError == "Message integrity check failed"

C24_ChecksInOrder ==
  [][\A s \in Socks :
       (/\ Answers(s)
        /\ IsAnswerTo(lastFrame'[s], "SEND")
        /\ Has(DataOf(lastFrame'[s]), "packet")
        /\ ~PassesChecks(DataOf(lastFrame'[s]).packet))
       => LET packet == DataOf(lastFrame'[s]).packet IN
          /\ lastFrame'[s].status = "ERROR"
          /\ ~verifyMessageIntegrity(packet) => lastFrame'[s].message = IntegrityError
          /\ (verifyMessageIntegrity(packet) /\ ~verifyHashCash(packet))
             => lastFrame'[s].message = HashCashError
          /\ nreq' = nreq + 1
          /\ tasks' = tasks
          /\ publicKeys' = publicKeys
          /\ heap' = heap]_vars

\* a signed packet that fails both checks has been refused by a server that verifies
\* signatures and holds the sender's key file
C24_Witness ==
  /\ usePGP
  /\ pubFiles[AddrA] # NoFile
  /\ IsAnswerTo(lastFrame[ClientSock], "SEND")
  /\ DataOf(lastFrame[ClientSock]).packet = PktBoth
  /\ lastFrame[ClientSock].message = IntegrityError

-----------------------------------------------------------------------------
(* Decryption and verification at retrieval.  Senders submit packets that  *)
(* the recipient's key decrypts, packets it cannot decrypt, and packets    *)
(* whose signature does not verify; the recipient may have protected its   *)
(* private key with a passphrase; readers retrieve one after the other.    *)

\* encrypted to the key of another address
SealedWrongKey == Encrypted(Signed(PlainPacket("m7", AddrB, ContentHiYo, TagsHigh), "kA"), "kA")
\* signed with a key that is not the sender's
SealedForged == Encrypted(Signed(PlainPacket("m8", AddrB, ContentHiNo, TagsPromotion), "kB"), "kB")

CryptoPackets == {PktSecure, SealedGarbage, SealedMutated, SealedWrongKey, SealedForged, PktPlain}

CryptoRetrievals ==
  { Req("RECEIVE", [email |-> AddrB]),
    Req("RECEIVE_FILTERED", [email |-> AddrB]),
    Req("RECEIVE_FILTERED", [email |-> AddrB, tagFilters |-> FilterPromotion]) }

\* a sender or a reader submits a request and waits for the response
submit(req) ==
  /\ DOMAIN tasks = {}
  /\ Data(ClientSock, <<Doc(req)>>)
  /\ UNCHANGED <<clientVars, senderVars>>

NextCrypto ==
  \/ Accept(ClientSock) /\ UNCHANGED <<clientVars, senderVars>>
  \/ newProtocol(Difficulty, TRUE)
  \/ DOMAIN tasks = {} /\ generateKeyPair(AddrB, "secret")
  \/ \E packet \in CryptoPackets : submit(SendReq(packet))
  \/ \E req \in CryptoRetrievals : submit(req)
  \/ \E r \in 1..MaxReqs : Resume(r) /\ UNCHANGED <<clientVars, senderVars>>

SpecCrypto == Init /\ [][NextCrypto]_vars

\* C25: a decryption or signature-verification failure in the retrieval-time pass never
\* aborts the retrieval: RECEIVE is answered OK with every queued packet and
\* RECEIVE_FILTERED with every matching one, the packets returned are removed from the
\* mailbox, and a packet that could not be decrypted keeps its ciphertext content.
C25_RetrievalSurvivesCrypto ==
  [][/\ \A s \in Socks :
          (/\ Answers(s)
           /\ usePGP
           /\ \/ IsAnswerFor(lastFrame'[s], "RECEIVE")
              \/ IsAnswerFor(lastFrame'[s], "RECEIVE_FILTERED")
           /\ Len(MailboxOf(mailboxes, DataOf(lastFrame'[s]).email)) >= 1)
          => LET frame == lastFrame'[s]
                 email == DataOf(frame).email
                 box == mailboxes[email]
                 wanted == IF IsAnswerFor(frame, "RECEIVE_FILTERED") /\ HasFilter(frame)
                           THEN SelectSeq(box, LAMBDA o :
                                  MatchesTagFilters(heap'[o], DataOf(frame).tagFilters))
                           ELSE box
             IN /\ frame.status = "OK"
                /\ frame.refs = wanted
                /\ frame.messages = Snapshot(wanted, heap')
                /\ \A j \in 1..Len(wanted) :
                     ~SeqIncludes(MailboxOf(mailboxes', email), wanted[j])
     /\ \A o \in DOMAIN heap \cap DOMAIN heap' :
          heap'[o].content # heap[o].content
          => /\ Has(heap[o].content, "encrypted")
             /\ \E k \in KeyIds :
                  /\ privFiles[heap[o].recipient] = ArmoredPrivate(k)
                  /\ ~pgpDecryptThrows(heap[o].content.encrypted, k)
                  /\ heap'[o].content = JSONparseContent(pgpDecrypt(heap[o].content.encrypted, k))
                  /\ Has(heap'[o].meta, "decrypted")]_vars

\* a retrieval on a server that decrypts has returned a packet whose ciphertext no key
\* decrypts together with a packet whose signature did not verify
C25_Witness ==
  /\ usePGP
  /\ privFiles[AddrB] # NoFile
  /\ \/ IsAnswerFor(lastFrame[ClientSock], "RECEIVE")
     \/ IsAnswerFor(lastFrame[ClientSock], "RECEIVE_FILTERED")
  /\ lastFrame[ClientSock].status = "OK"
  /\ \E j \in 1..Len(lastFrame[ClientSock].messages) :
       /\ lastFrame[ClientSock].messages[j].content = [encrypted |-> "garbage"]
       /\ ~Has(lastFrame[ClientSock].messages[j].meta, "decrypted")
  /\ \E j \in 1..Len(lastFrame[ClientSock].messages) :
       /\ Has(lastFrame[ClientSock].messages[j].meta, "signatureVerified")
       /\ ~lastFrame[ClientSock].messages[j].meta.signatureVerified

\* C26: createMessagePacket with two valid addresses always returns a packet, whatever
\* the key store holds and whether or not signing or encryption fails: unsigned
\* (meta.signed false, no signature) when it cannot sign, unencrypted (meta.encrypted
\* false, plaintext content) when it cannot encrypt; meta.encrypted is true exactly when
\* content is {encrypted: ciphertext}, meta.signed exactly when a signature is present.
C26_AlwaysReturnsPacket ==
  (/\ returned # NoFrame
   /\ returned.call = "createMessagePacket"
   /\ validateEmailFormat(returned.from)
   /\ validateEmailFormat(returned.to))
  => /\ Has(returned.result, "packet")
     /\ LET packet == returned.result.packet IN
        /\ packet.meta.encrypted <=> DOMAIN packet.content = {"encrypted"}
        /\ ~packet.meta.encrypted
           => packet.content = [subject |-> returned.subject, body |-> returned.body]
        /\ packet.meta.signed <=> Has(packet.verification, "signature")

\* what C27 says of the packet stored by a SEND: signatureVerified is a boolean, true
\* exactly if the server can obtain the sender's key and the signature is that key's
\* over the packet's content
VerifiedAsStated(stored) ==
  /\ Has(stored.meta, "signatureVerified")
  /\ stored.meta.signatureVerified
     <=> /\ stored.sender \in DOMAIN publicKeys'
         /\ pgpVerified(JSONstringify(stored.content), stored.verification.signature,
                        publicKeys'[stored.sender])

\* C27: after processPacket has returned success on an instance with PGP for a packet
\* with meta.signed = true and a signature, meta.signatureVerified is a boolean: true if
\* the signature verifies over the packet's content with the sender's public key, false
\* for every failure, an unavailable sender key included; the result is success in both
\* cases, so the SEND is answered OK and the packet stored.
C27_SignatureVerifiedSet ==
  [][\A s \in Socks :
       (/\ Answers(s)
        /\ usePGP
        /\ IsAnswerTo(lastFrame'[s], "SEND")
        /\ Has(DataOf(lastFrame'[s]), "packet")
        /\ PassesChecks(DataOf(lastFrame'[s]).packet)
        /\ DataOf(lastFrame'[s]).packet.meta.signed
        /\ Has(DataOf(lastFrame'[s]).packet.verification, "signature"))
       => LET packet == DataOf(lastFrame'[s]).packet
              box == MailboxOf(mailboxes', packet.recipient)
          IN /\ lastFrame'[s].status = "OK"
             /\ Len(box) > 0
             /\ VerifiedAsStated(heap'[box[Len(box)]])]_vars

-----------------------------------------------------------------------------
(* The key store of the server.  Clients register keys and request them    *)
(* without waiting for each other's responses, while a signed packet from  *)
(* the same address is being sent.                                         *)

PktSignedPlain == Signed(PktPlain, "kA")

KeyRequests ==
  {Req("REGISTER_KEY", [email |-> AddrA, publicKey |-> armored]) : armored \in ArmoredTexts}
  \cup {Req("REGISTER_KEY", [email |-> AddrBad, publicKey |-> ArmoredPublic("kA")])}
  \cup {Req("REQUEST_PUBLIC_KEY", [email |-> a]) : a \in {AddrA, AddrB, AddrBad}}
  \cup {SendReq(PktSignedPlain)}

NextKeys ==
  \/ Accept(ClientSock) /\ UNCHANGED <<clientVars, senderVars>>
  \/ \E req \in KeyRequests :
       Data(ClientSock, <<Doc(req)>>) /\ UNCHANGED <<clientVars, senderVars>>
  \/ \E r \in 1..MaxReqs : Resume(r) /\ UNCHANGED <<clientVars, senderVars>>

SpecKeys == Init /\ [][NextKeys]_vars

\* frame answers a REGISTER_KEY or a REQUEST_PUBLIC_KEY
IsKeyAnswer(frame) ==
  IsAnswerTo(frame, "REGISTER_KEY") \/ IsAnswerTo(frame, "REQUEST_PUBLIC_KEY")

\* C28: with PGP disabled, REGISTER_KEY and REQUEST_PUBLIC_KEY reply ERROR and change no
\* key file and no cache entry; with PGP enabled, REQUEST_PUBLIC_KEY for an address with
\* no stored public key replies ERROR, and both actions reply ERROR without any state
\* change when the address is not of the form (local)%(domain).
C28_KeyErrors ==
  [][\A s \in Socks :
       (Answers(s) /\ IsKeyAnswer(lastFrame'[s]))
       => LET frame == lastFrame'[s]
              email == DataOf(frame).email
          IN /\ ~usePGP
                => /\ frame.status = "ERROR"
                   /\ UNCHANGED <<pubFiles, privFiles, publicKeys>>
             /\ (/\ usePGP
                 /\ IsAnswerTo(frame, "REQUEST_PUBLIC_KEY")
                 /\ validateEmailFormat(email)
                 /\ pubFiles[email] = NoFile)
                => frame.status = "ERROR"
             /\ (usePGP /\ ~validateEmailFormat(email))
                => /\ frame.status = "ERROR"
                   /\ UNCHANGED <<pubFiles, privFiles, publicKeys, mailboxes, heap>>]_vars

\* a server with PGP that holds a registered key for one address has refused a request
\* for the key of an address that has none
C28_Witness ==
  /\ usePGP
  /\ AddrA \in DOMAIN publicKeys
  /\ IsAnswerTo(lastFrame[ClientSock], "REQUEST_PUBLIC_KEY")
  /\ DataOf(lastFrame[ClientSock]).email = AddrB
  /\ lastFrame[ClientSock].status = "ERROR"
  /\ lastFrame[ClientSock].message = "Public key not found for this email"

\* a registration for address a has been received and has not replied yet
Registering(ts, a) ==
  \E r \in DOMAIN ts :
    /\ ts[r].action = "REGISTER_KEY"
    /\ ts[r].data # NullValue
    /\ Has(ts[r].data, "email")
    /\ ts[r].data.email = a

\* what getPublicKey(a) yields on the server: the cache entry if there is one, else the
\* key parsed from the key file
KeyOnServer(cache, files, a) ==
  IF a \in DOMAIN cache THEN cache[a] ELSE readKey(files[a])

\* C29: after a REGISTER_KEY for address a with key K has replied OK, and with no later
\* registration for a, every REQUEST_PUBLIC_KEY for a returns publicKey = K and
\* getPublicKey(a) on the server yields the key parsed from K: when the reply is written
\* and no other registration for a is under way, the key file holds K and getPublicKey(a)
\* yields the key of K, and as long as no registration for a is under way neither the
\* key file of a nor what getPublicKey(a) yields changes.
C29_LastRegistrationWins ==
  [][\A a \in {AddrA, AddrB} :
       /\ \A s \in Socks :
            (/\ Answers(s)
             /\ IsAnswerTo(lastFrame'[s], "REGISTER_KEY")
             /\ lastFrame'[s].status = "OK"
             /\ DataOf(lastFrame'[s]).email = a
             /\ ~Registering(tasks', a))
            => /\ pubFiles'[a] = DataOf(lastFrame'[s]).publicKey
               /\ KeyOnServer(publicKeys', pubFiles', a)
                    = readKey(DataOf(lastFrame'[s]).publicKey)
       /\ (/\ ~Registering(tasks, a)
           /\ ~Registering(tasks', a)
           /\ pubFiles[a] # NoFile)
          => /\ pubFiles'[a] = pubFiles[a]
             /\ KeyOnServer(publicKeys', pubFiles', a) = KeyOnServer(publicKeys, pubFiles, a)
       /\ \A s \in Socks :
            (/\ Answers(s)
             /\ IsAnswerTo(lastFrame'[s], "REQUEST_PUBLIC_KEY")
             /\ DataOf(lastFrame'[s]).email = a
             /\ lastFrame'[s].status = "OK")
            => lastFrame'[s].publicKey = pubFiles[a]]_vars

\* C30: the packet createReplyPacket(original, from, body, opts) returns has type REPLY,
\* sender `from`, recipient original.sender, subject 'RE: ' followed by the original's
\* subject, or by 'Encrypted Message' when original.meta.encrypted is true, and the tags
\* processTags(opts.tags) when the caller supplies tags and processTags(original.meta.tags)
\* otherwise; an encrypted reply carries that subject in its ciphertext.
C30_ReplyPacket ==
  (/\ returned # NoFrame
   /\ returned.call = "createReplyPacket"
   /\ Has(returned.result, "packet"))
  => LET packet == returned.result.packet
         original == returned.original
         plain == [ subject |-> "RE: " \o (IF original.meta.encrypted
                                           THEN "Encrypted Message"
                                           ELSE original.content.subject),
                    body |-> returned.body ]
     IN /\ packet.meta.type = "REPLY"
        /\ packet.sender = returned.from
        /\ packet.recipient = original.sender
        /\ IF packet.meta.encrypted
           THEN \E k \in KeyIds :
                  packet.content = [encrypted |-> pgpEncrypt(JSONstringify(plain), k)]
           ELSE packet.content = plain
        /\ packet.meta.tags = processTags(IF Has(returned.options.tags, "undefined")
                                          THEN original.meta.tags
                                          ELSE returned.options.tags)

\* a reply to an encrypted packet that carried tags has been built without tags of its
\* own
C30_Witness ==
  /\ returned # NoFrame
  /\ returned.call = "createReplyPacket"
  /\ Has(returned.result, "packet")
  /\ returned.original.meta.encrypted
  /\ returned.original.meta.tags = TagsPromotion
  /\ Has(returned.options.tags, "undefined")
  /\ returned.result.packet.content = [subject |-> "RE: Encrypted Message", body |-> "Yo"]
  /\ returned.result.packet.meta.tags = TagsPromotion

-----------------------------------------------------------------------------
(* The request methods of the client, called with valid and with invalid   *)
(* addresses, connected or not.  `returned` holds the arguments of the     *)
(* last call.                                                              *)

FormatError == "Invalid email format. Must be (name)%(domain)"
NotConnected == "Not connected to MMTP server"

\* the options callers pass to sendMail
SendOptions == { << >>, [tags |-> TagsPromotion], [sign |-> FALSE, encrypt |-> FALSE] }

\* messageOptions of sendMail, lines 99-104
messageOptions(p, options) ==
  [ encrypt |-> IF Has(options, "encrypt") THEN options.encrypt ELSE p.usePGP,
    sign |-> IF Has(options, "sign") THEN options.sign ELSE p.usePGP,
    tags |-> IF Has(options, "tags") THEN options.tags ELSE NoTags ]

\* a call that ends before the promise executor: the method throws or its promise rejects
FailedCall(key, how, error) ==
  [ action |-> key, re |-> << >>, req |-> 0,
    state |-> how, value |-> [error |-> error], timer |-> "none", written |-> 0,
    answered |-> TRUE, got |-> 0, overlap |-> FALSE, replaces |-> 0, stale |-> FALSE ]

\* the promise executor of a request method: write, setTimeout, waitingResponses.set
issue(key, buffer) ==
  /\ Data(ClientSock, buffer)
  /\ calls' = Append(calls, NewCall(key, buffer, Len(calls) + 1))
  /\ waitingResponses' = MapSet(waitingResponses, key, Len(calls) + 1)
  /\ wire' = Written

\* the method ends without writing
fail(key, how, error) ==
  /\ calls' = Append(calls, FailedCall(key, how, error))
  /\ UNCHANGED <<serverVars, waitingResponses, wire>>

\* sendMail(from, to, subject, body, options), lines 95-123
sendMail(resource, subject, body, options) ==
  LET result == createMessagePacket(protocol, pubFiles, privFiles, resource[1], resource[2],
                                    subject, body, "SEND", messageOptions(protocol, options),
                                    FreshIds[Len(heap) + 1], resource[3])
  IN /\ protocol # NoFrame
     /\ Len(calls) < MaxCalls
     /\ returned' = [ call |-> "sendMail", addresses |-> {resource[1], resource[2]} ]
     /\ IF ~connected
        THEN fail("SEND", "rejected", NotConnected) /\ UNCHANGED protocol
        ELSE /\ protocol' = [protocol EXCEPT !.publicKeys = result.publicKeys]
             /\ IF Has(result, "thrown")
                THEN fail("SEND", "rejected", result.thrown)
                ELSE issue("SEND", <<Doc(SendReq(result.packet))>>)
     /\ UNCHANGED <<connected, connectPromise>>

\* retrieve without the test of the address
retrieve_Unchecked(key, data) ==
  /\ protocol # NoFrame
  /\ Len(calls) < MaxCalls
  /\ returned' = [ call |-> key, addresses |-> {data.email} ]
  /\ IF ~connected
     THEN fail(key, "thrown", NotConnected)
     ELSE issue(key, <<Doc(Req(key, data))>>)
  /\ UNCHANGED <<connected, connectPromise, protocol>>

\* checkMail (lines 153-177), receiveMail (178-202) and receiveMailByTags (203-228); key
\* is the action of the request and data its data
retrieve(key, data) ==
  /\ protocol # NoFrame
  /\ Len(calls) < MaxCalls
  /\ returned' = [ call |-> key, addresses |-> {data.email} ]
  /\ IF ~connected
     THEN fail(key, "thrown", NotConnected)
     ELSE IF ~validateEmailFormat(data.email)
     THEN fail(key, "thrown", FormatError)
     ELSE issue(key, <<Doc(Req(key, data))>>)
  /\ UNCHANGED <<connected, connectPromise, protocol>>

\* the arguments of checkMail, receiveMail and receiveMailByTags
RetrieveCalls ==
  { <<key, [email |-> a]>> : key \in {"CHECK", "RECEIVE"}, a \in {AddrB, AddrBad} }
  \cup { <<"RECEIVE_FILTERED", [email |-> a, tagFilters |-> FilterPromotion]>> :
           a \in {AddrB, AddrBad} }

NextCalls ==
  \/ connect /\ protocol # NoFrame
  \/ accept
  \/ onConnect
  \/ \E pgp \in BOOLEAN : newProtocol(Difficulty, pgp)
  \/ \E resource \in Resources, options \in SendOptions :
       sendMail(resource, "Hi", "Yo", options)
  \/ \E q \in RetrieveCalls : retrieve(q[1], q[2])
  \/ \E r \in 1..MaxReqs : resume(r)
  \/ onData

SpecCalls == Init /\ [][NextCalls]_vars

\* C31: createMessagePacket fails with a format error when the sender or the recipient
\* address does not match (local)%(domain), before any HashCash, signing or encryption
\* work (the key cache is as it was); so sendMail with an invalid address rejects without
\* writing to the socket and without registering a tracker, and checkMail, receiveMail
\* and receiveMailByTags with an invalid address fail likewise without sending.
C31_InvalidAddressFails ==
  [][(/\ Len(calls') = Len(calls) + 1
      /\ \E a \in returned'.addresses : ~validateEmailFormat(a))
     => LET call == calls'[Len(calls')] IN
        /\ call.state \in {"rejected", "thrown"}
        /\ connected => call.value.error = FormatError
        /\ call.written = 0
        /\ UNCHANGED <<serverVars, waitingResponses, wire>>
        /\ protocol'.publicKeys = protocol.publicKeys]_vars

\* a connected client with PGP and a key store that holds the keys has called sendMail
\* with an invalid recipient, after a request that is still tracked
C31_Witness ==
  /\ connected
  /\ protocol # NoFrame
  /\ protocol.usePGP
  /\ pubFiles[AddrA] # NoFile
  /\ Len(calls) = 2
  /\ calls[2].action = "SEND"
  /\ calls[2].value = [error |-> FormatError]
  /\ returned.addresses = {AddrA, AddrBad}
  /\ Len(waitingResponses) = 1

-----------------------------------------------------------------------------
(* Counting.  Senders submit packets built with the tags of TagInputs; a   *)
(* reader counts with CHECK and retrieves with RECEIVE_FILTERED, with a    *)
(* filter, with an empty filter mapping and without filters.               *)

CheckData ==
  {[email |-> AddrB], [email |-> AddrB, tagFilters |-> NoTags]}
  \cup {[email |-> AddrB, tagFilters |-> f] : f \in TagFilterInputs}

\* a reader counts or retrieves
readWith(action, data) ==
  /\ Data(ClientSock, <<Doc(Req(action, data))>>)
  /\ UNCHANGED <<clientVars, senderVars>>

NextCheck ==
  \/ Accept(ClientSock) /\ UNCHANGED <<clientVars, senderVars>>
  \/ \E tags \in TagInputs : createAndSend(tags)
  \/ \E action \in {"RECEIVE_FILTERED", "CHECK"}, data \in CheckData : readWith(action, data)

SpecCheck == Init /\ [][NextCheck]_vars

\* the categories and the tags of the packets in box
CategoriesIn(box, hp) == UNION {DOMAIN hp[box[j]].meta.tags : j \in 1..Len(box)}
TagNamesIn(box, hp) ==
  UNION {UNION {Values(hp[box[j]].meta.tags[category]) :
                  category \in DOMAIN hp[box[j]].meta.tags} : j \in 1..Len(box)}

\* tagCounts[category][tag], 0 where the histogram has no entry
CountAt(tagCounts, category, tag) ==
  IF Has(tagCounts, category) /\ Has(tagCounts[category], tag)
  THEN tagCounts[category][tag] ELSE 0

\* C32: CHECK for a valid address returns totalCount = the number of packets queued for
\* it, count = the number of queued packets matching tagFilters (totalCount when no
\* filters or an empty filter mapping are supplied), and tagCounts[c][t] = the number of
\* occurrences of tag t under category c over all queued packets; a RECEIVE_FILTERED with
\* the same filters issued immediately afterwards returns exactly `count` messages.
C32_CheckCounts ==
  [][\A s \in Socks :
       /\ (Answers(s) /\ IsAnswerFor(lastFrame'[s], "CHECK"))
          => LET frame == lastFrame'[s]
                 box == MailboxOf(mailboxes, DataOf(frame).email)
             IN /\ frame.status = "OK"
                /\ frame.totalCount = Len(box)
                /\ frame.count =
                     IF HasFilter(frame)
                     THEN Len(SelectSeq(box, LAMBDA o :
                                MatchesTagFilters(heap[o], DataOf(frame).tagFilters)))
                     ELSE Len(box)
                /\ \A category \in CategoriesIn(box, heap), tag \in TagNamesIn(box, heap) :
                     CountAt(frame.tagCounts, category, tag)
                       = SumOver([j \in 1..Len(box) |->
                                    Occurrences(TagsOf(heap[box[j]], category), tag)],
                                 1..Len(box))
       /\ (/\ Answers(s)
           /\ IsAnswerFor(lastFrame'[s], "RECEIVE_FILTERED")
           /\ lastFrame[s] # NoFrame
           /\ IsAnswerFor(lastFrame[s], "CHECK")
           /\ lastFrame[s].status = "OK"
           /\ DataOf(lastFrame[s]) = DataOf(lastFrame'[s]))
          => /\ lastFrame'[s].status = "OK"
             /\ Len(lastFrame'[s].messages) = lastFrame[s].count]_vars

-----------------------------------------------------------------------------
(* The response handler of the client *)

\* the client receives a frame that is not the welcome frame
Receiving == connected /\ wire # << >> /\ wire' = Tail(wire) /\ ~IsWelcome(Head(wire).frame)

\* what a call is to its caller: its promise and its timer
Promise(call) == [state |-> call.state, value |-> call.value, timer |-> call.timer]

\* the step removes the tracker inserted earliest, cancels its timer and leaves every other
\* tracker and its timer unchanged, or finds the table empty and has no effect
TakesOldest ==
  IF waitingResponses = << >>
  THEN /\ waitingResponses' = << >>
       /\ \A id \in DOMAIN calls : Promise(calls'[id]) = Promise(calls[id])
  ELSE /\ waitingResponses' = Tail(waitingResponses)
       /\ calls'[Head(waitingResponses).id].timer # "armed"
       /\ \A id \in DOMAIN calls \ {Head(waitingResponses).id} :
            Promise(calls'[id]) = Promise(calls[id])

\* C33 as stated: on each non-welcome response the client removes and settles exactly one
\* tracker, the one inserted earliest into the waiting table whatever its action,
\* rejecting it if the response status is ERROR and resolving it otherwise, and cancels
\* that tracker's timer; every other tracker and its timer are left unchanged, and a
\* response arriving when the table is empty is discarded without effect.
C33_OldestSettled ==
  [][Receiving
     => /\ TakesOldest
        /\ waitingResponses # << >>
           => calls'[Head(waitingResponses).id].state =
                IF Head(wire).frame.status = "ERROR" THEN "rejected" ELSE "resolved"]_vars

\* C33, amended: the tracker removed is settled by the response only if its promise is
\* still pending (a tracker whose timer has fired stays rejected with the timeout), and a
\* REQUEST_PUBLIC_KEY tracker that takes a response carrying publicKey is settled when the
\* import of that key ends: resolved if the key was imported, rejected otherwise.
C33_OldestSettledIfPending ==
  [][/\ Receiving
        => /\ TakesOldest
           /\ waitingResponses # << >>
              => LET entry == Head(waitingResponses)
                     response == Head(wire).frame
                 IN calls'[entry.id].state =
                      IF calls[entry.id].state # "pending" THEN calls[entry.id].state
                      ELSE IF response.status = "ERROR" THEN "rejected"
                      ELSE IF entry.action = "REQUEST_PUBLIC_KEY" /\ Has(response, "publicKey")
                      THEN "importing"
                      ELSE "resolved"
     /\ \A id \in DOMAIN calls :
          (calls[id].state = "importing" /\ calls'[id].state # "importing")
          => calls'[id].state =
               IF readKeyThrows(calls[id].value.publicKey) THEN "rejected" ELSE "resolved"]_vars

\* the oldest of two trackers has taken a response with a public key and is importing it,
\* and the other tracker is still in the table with its timer armed
C33_Witness ==
  /\ Len(calls) = 2
  /\ calls[1].state = "importing"
  /\ Len(waitingResponses) = 1
  /\ waitingResponses[1].id = 2
  /\ calls[2].timer = "armed"

-----------------------------------------------------------------------------
(* Connections after a refusal *)

\* the registered connections of the source of socket s that are open
OpenFrom(s) == {q \in FromSource(RemoteAddress(s), Socks) : sock[q] = "open"}

\* C35: refusal for exceeding the connection cap is never permanent: whenever a source
\* has fewer than 5 open connections, a new connection from it is registered and
\* receives the welcome frame, in particular after earlier refused attempts and after
\* the source has closed all of its connections.
C35_RefusalNotPermanent ==
  [][\A s \in Socks :
       (/\ sock[s] = "closed"
        /\ sock'[s] # "closed"
        /\ Cardinality(OpenFrom(s)) < ConnectionCap)
       => /\ sock'[s] = "open"
          /\ s \in clients'
          /\ lastFrame'[s] = WelcomeFrame]_vars

-----------------------------------------------------------------------------
(* A server without PGP.  No handler awaits file I/O, so each data event   *)
(* is served to its end before the next; two clients send and retrieve in  *)
(* any order.                                                              *)

PlainBuffers ==
  { <<Doc(SendReq(p))>> : p \in {PktPromo, PktSameId, PktPlain} }
  \cup { <<Doc(Req("RECEIVE", [email |-> AddrB]))>>,
         <<Doc(Req("RECEIVE_FILTERED", [email |-> AddrB, tagFilters |-> FilterPromotion]))>>,
         <<Doc(Req("RECEIVE_FILTERED", [email |-> AddrB]))>> }

NextPlain ==
  \/ \E s \in RaceSocks : ~usePGP /\ Accept(s) /\ UNCHANGED <<clientVars, senderVars>>
  \/ \E s \in RaceSocks, buffer \in PlainBuffers :
       ~usePGP /\ Data(s, buffer) /\ UNCHANGED <<clientVars, senderVars>>

SpecPlain == Init /\ [][NextPlain]_vars

\* the number of places of the mailboxes that hold packet o
Queued(o, mb) ==
  SumOver([a \in DOMAIN mb |-> Occurrences(mb[a], o)], DOMAIN mb)

\* C34: when PGP is disabled on the server, the SEND append and the RECEIVE and
\* RECEIVE_FILTERED read-modify-write sequences contain no yield point (no handler is
\* ever suspended), so under every interleaving of requests from any number of
\* connections each accepted packet is returned by exactly one retrieval response or is
\* still queued: no duplicate and no lost delivery.
C34_ExactlyOnceWithoutPGP ==
  ~usePGP
  => /\ DOMAIN tasks = {}
     /\ \A o \in DOMAIN heap :
          Accepted(o, heap, tasks) => delivered[o] + Queued(o, mailboxes) = 1

-----------------------------------------------------------------------------
(* One response per data event.  A client sends, without waiting for the   *)
(* responses, requests of every action, requests whose handlers throw, and *)
(* buffers that are no request.                                            *)

AnswerBuffers ==
  { <<Doc(SendReq(p))>> : p \in {PktSecure, PktToProto, PktTampered} }
  \cup { <<Doc(Req("RECEIVE", [email |-> AddrB]))>>,
         <<Doc(Req("RECEIVE_FILTERED", [email |-> AddrB, tagFilters |-> [constructor |-> <<"x">>]]))>>,
         <<Doc(Req("CHECK", NullValue))>>,
         <<Doc(Req("REGISTER_KEY", [email |-> AddrA, publicKey |-> "garbage"]))>>,
         <<Doc(Req("REGISTER_KEY", [email |-> AddrA, publicKey |-> ArmoredPublic("kA")]))>>,
         <<Doc(Req("REQUEST_PUBLIC_KEY", [email |-> AddrA]))>>,
         <<Doc(Req("GET_TAG_CATEGORIES", NullValue))>>,
         <<Doc(Req("DELETE", [email |-> AddrB]))>>,
         <<Fragment>>,
         <<Doc(NullValue)>> }

NextAnswers ==
  \/ Accept(ClientSock) /\ UNCHANGED <<clientVars, senderVars>>
  \/ \E buffer \in AnswerBuffers :
       Data(ClientSock, buffer) /\ UNCHANGED <<clientVars, senderVars>>
  \/ \E r \in 1..MaxReqs : Resume(r) /\ UNCHANGED <<clientVars, senderVars>>

SpecAnswers == Init /\ [][NextAnswers]_vars

\* the data events whose handlers end in this step
Ending ==
  {r \in DOMAIN tasks : r \notin DOMAIN tasks'}
  \cup (IF nreq' # nreq /\ nreq' \notin DOMAIN tasks' THEN {nreq'} ELSE {})

\* C36: for every data event received on a registered connection the server writes
\* exactly one response frame (OK or ERROR) on that connection, for every request content
\* and every handler path including paths that throw: a frame is written exactly when a
\* handler ends, one per handler, so the number of non-welcome frames sent on a
\* connection equals the number of data events handled on it.
C36_OneResponsePerEvent ==
  /\ [](sock[ClientSock] = "open"
        => sent[ClientSock] = 1 + (nreq - Cardinality(DOMAIN tasks)))
  /\ [][sock[ClientSock] = "open"
        => /\ sent'[ClientSock] = sent[ClientSock] + Cardinality(Ending)
           /\ Ending # {} => lastFrame'[ClientSock].status \in {"OK", "ERROR"}]_vars

\* the server has handled four data events, one of them by the catch clause of the data
\* handler after a handler threw, and has sent four responses after the welcome frame
C36_Witness ==
  /\ sock[ClientSock] = "open"
  /\ nreq = 4
  /\ DOMAIN tasks = {}
  /\ sent[ClientSock] = 5
  /\ lastFrame[ClientSock] =
       ErrorFrame(<<Doc(Req("RECEIVE_FILTERED",
                            [email |-> AddrB, tagFilters |-> [constructor |-> <<"x">>]]))>>,
                  InvalidJSON)

-----------------------------------------------------------------------------
(* connect() against the connection cap.  The client's host may hold       *)
(* ConnectionCap other connections to the server, of processes that stay   *)
(* connected and silent: the client's own connection is then refused.      *)

\* the sockets of the other processes of the client's host
HostPeers == (MaxSocks + 1)..(MaxSocks + ConnectionCap)

\* the constructors, run while the client's host holds no connection or ConnectionCap
InitConnect ==
  /\ usePGP \in BOOLEAN
  /\ mailboxes = << >>
  /\ heap = << >>
  /\ \/ clients = {} /\ connectionLimits = << >>
     \/ clients = HostPeers
        /\ connectionLimits = (RemoteAddress(ClientSock) :> Cardinality(HostPeers))
  /\ sock = [s \in Socks |-> "closed"]
  /\ lastFrame = [s \in Socks |-> NoFrame]
  /\ sent = [s \in Socks |-> 0]
  /\ tasks = << >>
  /\ nreq = 0
  /\ \/ pubFiles = NoKeys /\ privFiles = NoKeys
     \/ usePGP /\ pubFiles = PublicKeyFiles /\ privFiles = PrivateKeyFiles
  /\ publicKeys = << >>
  /\ delivered = << >>
  /\ connected = FALSE
  /\ connectPromise = [state |-> "idle", value |-> NoFrame]
  /\ waitingResponses = << >>
  /\ calls = << >>
  /\ wire = << >>
  /\ protocol = NoFrame
  /\ returned = NoFrame

\* the connect callback of lines 38-42 and 50-54 on a connection that the server has
\* established, answered with the rate-limit frame and ended (part_001, lines 74-81)
onConnectRefused ==
  /\ connectPromise.state = "pending"
  /\ sock[ClientSock] = "refused"
  /\ ~connected
  /\ wire # << >>
  /\ connected' = TRUE
  /\ UNCHANGED <<senderVars, serverVars, connectPromise, waitingResponses, calls, wire>>

\* the 'close' handler of lines 83-86, after the data of the ended connection was read
onSocketClose ==
  /\ connected
  /\ sock[ClientSock] = "refused"
  /\ wire = << >>
  /\ connected' = FALSE
  /\ UNCHANGED <<senderVars, serverVars, connectPromise, waitingResponses, calls, wire>>

\* the 'error' handlers of lines 54-57 and 79-82: the ended connection fails instead of
\* closing, and what was in flight is lost
onSocketError ==
  /\ connected
  /\ sock[ClientSock] = "refused"
  /\ connected' = FALSE
  /\ wire' = << >>
  /\ connectPromise' = IF connectPromise.state = "pending"
                       THEN [state |-> "rejected", value |-> [error |-> "ECONNRESET"]]
                       ELSE connectPromise
  /\ UNCHANGED <<senderVars, serverVars, waitingResponses, calls>>

NextConnect ==
  \/ connect
  \/ connectError
  \/ accept
  \/ onConnect
  \/ onConnectRefused
  \/ \E q \in ClientRequests : request(q[1], q[2])
  \/ \E r \in 1..MaxReqs : resume(r)
  \/ onData
  \/ onSocketClose
  \/ onSocketError
  \/ \E id \in 1..MaxCalls : onTimeout(id)
  \/ \E id \in 1..MaxCalls : importDone(id)

\* the connection attempt ends one way or the other, and the event loop runs the
\* callbacks that are due: connect, data, close, timers, file operations
SpecConnect ==
  /\ InitConnect
  /\ [][NextConnect]_vars
  /\ WF_vars(accept \/ connectError)
  /\ WF_vars(onConnect \/ onConnectRefused)
  /\ WF_vars(onData)
  /\ WF_vars(onSocketClose)
  /\ WF_vars(Due)

\* C37: every connect() call eventually settles: its promise resolves when the welcome
\* frame arrives and rejects when the connection fails or when the server refuses it with
\* the rate-limit error frame and closes the socket; it never stays pending forever.
C37_ConnectSettles ==
  connectPromise.state = "pending" ~> connectPromise.state \in {"resolved", "rejected"}

-----------------------------------------------------------------------------
(* Resubmitted packets *)

\* stored carries the HashCash token and the messageId of packet
SameToken(stored, packet) ==
  /\ stored.meta.hashcashToken = packet.meta.hashcashToken
  /\ stored.meta.messageId = packet.meta.messageId

\* in this step a SEND of a packet for address a is answered OK
SendAccepted(a) ==
  \E s \in Socks :
    /\ Answers(s)
    /\ IsAnswerTo(lastFrame'[s], "SEND")
    /\ lastFrame'[s].status = "OK"
    /\ DataOf(lastFrame'[s]).packet.recipient = a

\* in this step a RECEIVE or a RECEIVE_FILTERED for address a is answered
Drained(a) ==
  \E s \in Socks :
    /\ Answers(s)
    /\ IsAnswerTo(lastFrame'[s], "RECEIVE") \/ IsAnswerTo(lastFrame'[s], "RECEIVE_FILTERED")
    /\ DataOf(lastFrame'[s]).email = a

-----------------------------------------------------------------------------
(* The keys of the mailbox map *)

\* C39: every key of the mailbox map is an address of the form (local)%(domain): a SEND
\* stores a packet only under a recipient that passes validateEmailFormat, so that every
\* stored packet can be retrieved by a RECEIVE for its address.
C39_MailboxKeysValid ==
  \A a \in DOMAIN mailboxes : validateEmailFormat(a)

-----------------------------------------------------------------------------
(* The key cache and the key files *)

\* C40: the in-memory key cache and the key files stay coherent: once every started
\* importPublicKey and generateKeyPair call has completed (no handler is suspended),
\* under any interleaving of such calls for the same address, the key cached for an
\* address is the key parsed from the current content of its public-key file.
C40_CacheMatchesFile ==
  DOMAIN tasks = {}
  => \A a \in DOMAIN publicKeys :
       pubFiles[a] # NoFile /\ publicKeys[a] = readKey(pubFiles[a])

=============================================================================
